---- MODULE Spec2Model ----
(***************************************************************************)
(* A model of the photo organizer's analytical core:                       *)
(*   - the similarity grouper (src/group/index.ts): the linking predicate  *)
(*     areLinked and the flood fill of groupPhotosTransitive;              *)
(*   - cosineSimilarity (src/group/clip.ts);                               *)
(*   - the composite scorer's weightedSum (src/unnamed/part_005) and the   *)
(*     scoring weights main reads from the command line (src/index.ts);    *)
(*   - scoreImages with its concurrent per-photo scoreImage calls and the  *)
(*     lazy model loader ensureFaceApi (src/score/vision.ts);              *)
(*   - the review server and page (src/review/review.ts, script.js) and    *)
(*     main's use of the review result (src/index.ts);                     *)
(*   - main's steps group, move, rename and compress (src/index.ts) with   *)
(*     moveDups (src/moves/move.ts), the keyword pre-grouping              *)
(*     (src/unnamed/part_002) and the rename step (src/rename/rename.ts).  *)
(*                                                                         *)
(* Numbers.  JavaScript numbers are modelled by exact integer arithmetic   *)
(* on scaled values:                                                       *)
(*   - capture times are integers (epoch milliseconds);                    *)
(*   - phashThreshold and cosineSimilarityThreshold are in hundredths      *)
(*     (85 is 0.85); sub-scores and weights are in hundredths too;         *)
(*   - an embedding is a sequence of integers whose L2 norm is an integer  *)
(*     (cosine similarity does not depend on the scale of a vector);       *)
(*   - the result of a division is a tagged rational, so that 0/0 = NaN    *)
(*     and x/0 = Infinity are values a formula can ask about.              *)
(* An optional value (string | null, number | null) is a sequence of       *)
(* length at most one: None is null, Some(x) is the value x.               *)
(***************************************************************************)
EXTENDS Integers, Sequences, FiniteSets, TLC

VARIABLES
    \* groupPhotosTransitive (src/group/index.ts:37-91)
    photos,     \* the input batch: Seq of Image {path, hash, time, clip}
    cfg,        \* the four thresholds
    used,       \* the set of visited paths
    groups,     \* the groups emitted so far, each a sequence of paths
    group,      \* the component being built
    queue,      \* the flood-fill frontier (popped from its end)
    seedIdx,    \* position of the outer for-loop in photos
    pc,         \* "idle" | "seed" | "fill" | "done" | "threw"
    \* one call of areLinked on a pair of records, in both orders
    la, lb, lcfg, lret, lpc,
    \* one call of weightedSum
    breakdown, score, spc,
    \* the scoring weights handed to main (src/index.ts:179-184, 225-236)
    argvW,      \* the six --score-weight-* options, in hundredths
    cfgW,       \* the weights object main passes to setScoreConfig
    \* scoreImages (src/unnamed/part_005:242-272) over a batch of groups
    igroups,    \* the input: Seq of groups, each a Seq of {path}
    files,      \* what each path holds on disk (readable, pixels, faces)
    skipFace,   \* skipFacialRecognition (src/score/vision.ts:11-27)
    modelsLoaded, \* the flag of ensureFaceApi (src/score/vision.ts:5)
    loads,      \* per net, the number of loadFromDisk calls so far
    gi,         \* the loop index i of scoreImages (1-based, 0 before the call)
    tpc,        \* per member of group gi, where its scoreImage call stands
    settled,    \* the per-photo promises of group gi, in the order they resolved
    ng,         \* the ScoreGroups pushed so far
    bpc,        \* "idle" | "call" | "await" | "returned" | "rejected"
    \* the review (src/review/review.ts, src/review/script.js) and main's use
    \* of its result (src/index.ts:266-281)
    rmode,      \* "single" (reviewGroupBun) | "multi" (reviewAllGroupsBun)
    scored,     \* the ScoreGroups under review
    recommendedIndex, \* reviewGroupBun's recommendedIndex
    selections, \* the page's selection per group: sets of 0-based indices
    allKeeps,   \* the index lists the review resolved with
    rpc,        \* "idle" | "call" | "serving" | "loaded" | "posting" |
                \* "decided" | "applied" | "skipped"
    \* the page's state (src/review/script.js:1-7) and the decide request
    currentGroup, \* the index of the displayed group
    selected,   \* the selection of the displayed group
    posted,     \* None, or Some(body the page posted to /api/decide)
    status,     \* the status of the last /api/decide response, 0 before any
    decision,   \* None while the review promise is pending, else Some(value)
    \* main's steps (src/index.ts:238-338)
    filesAbs,   \* the globbed files: Seq of paths
    skipSet,    \* the steps named by --skip
    mscored,    \* main's scored: None (undefined) or Some(ScoreGroups)
    chosen,     \* main's chosen array
    where,      \* per path, "folder" or "out" (moved to the duplicates folder)
    renameList, \* None, or Some(list handed to tagAndRenameFiles)
    ran,        \* the steps that ran
    merror,     \* the error main ended with, "" if none
    exitCode,   \* process.exitCode (0 while unset)
    mpc,        \* "idle" | "group" | "move" | "rename" | "compress" |
                \* "exited" | "failed"
    \* tagAndRenameFiles (src/rename/rename.ts:225-272)
    folder,     \* the files on disk: a set of {name, orig}, orig being the
                \* name the file had at the start
    selectedFiles, \* the list handed to tagAndRenameFiles: Seq of names
    fileIdx,    \* the position of the loop in the list (1-based)
    tagged,     \* per file processed, what tagging gave
    npc,        \* "idle" | "loop" | "complete"
    \* main's group step up to scoring (src/index.ts:242-266) and
    \* preGroupPhotos (src/unnamed/part_002:14-59)
    clipped,    \* the records built from the globbed files: Seq of Image
    labels,     \* the keyword labels
    pgroups,    \* preGroupPhotos' Map in insertion order: Seq of
                \* {label, items}, items a Seq of paths
    pidx,       \* the position of preGroupPhotos' loop (1-based)
    classes,    \* per image classified, what the classification came to
    handed,     \* None, or Some(the groups handed to scoreImages)
    qpc,        \* "idle" | "classify" | "filter" | "grouping" | "handed"
    \* two runs of groupPhotosTransitive on the same records
    run,        \* 0 outside this experiment, else the run going on (1 or 2)
    firstPhotos, \* the batch of the first run
    firstGroups \* the groups the first run returned

gvars == <<photos, cfg, used, groups, group, queue, seedIdx, pc>>
lvars == <<la, lb, lcfg, lret, lpc>>
svars == <<breakdown, score, spc>>
wvars == <<argvW, cfgW>>
bvars ==
    <<igroups, files, skipFace, modelsLoaded, loads, gi, tpc, settled, ng, bpc>>
pvars == <<currentGroup, selected, posted, status, decision>>
rvars == <<rmode, scored, recommendedIndex, selections, allKeeps, rpc, pvars>>
mvars ==
    <<filesAbs, skipSet, mscored, chosen, where, renameList, ran, merror,
      exitCode, mpc>>
nvars == <<folder, selectedFiles, fileIdx, tagged, npc>>
qvars == <<clipped, labels, pgroups, pidx, classes, handed, qpc>>
tvars == <<run, firstPhotos, firstGroups>>
xvars == <<nvars, qvars, tvars>>
vars == <<gvars, lvars, svars, wvars, bvars, rvars, mvars, xvars>>

(***************************************************************************)
(* Values                                                                  *)
(***************************************************************************)
None == <<>>
Some(x) == <<x>>
IsSome(m) == Len(m) = 1

Abs(x) == IF x < 0 THEN -x ELSE x
Max(x, y) == IF x >= y THEN x ELSE y
Min(x, y) == IF x <= y THEN x ELSE y

\* Tagged results of a floating-point division.
NaN == [kind |-> "nan", num |-> 0, den |-> 1]
Infinity == [kind |-> "inf", num |-> 0, den |-> 1]
NegInfinity == [kind |-> "-inf", num |-> 0, den |-> 1]
Ratio(n, d) == [kind |-> "num", num |-> n, den |-> d]

\* dot / den for den >= 0, as JavaScript divides: x/0 is +-Infinity, 0/0 is NaN,
\* NaN in either operand gives NaN.
Divide(dot, den) ==
    IF dot.kind = "nan" THEN NaN
    ELSE IF den = 0
         THEN (IF dot.num = 0 THEN NaN
               ELSE IF dot.num > 0 THEN Infinity ELSE NegInfinity)
         ELSE Ratio(dot.num, den)

\* x > t/100 for a tagged x: every comparison with NaN is false.
GreaterThanHundredths(x, t) ==
    CASE x.kind = "nan" -> FALSE
      [] x.kind = "inf" -> TRUE
      [] x.kind = "-inf" -> FALSE
      [] OTHER -> x.num * 100 > t * x.den

\* Math.sqrt on the sums of squares the model uses (perfect squares).
Sqrt(n) == CHOOSE r \in 0..n : r * r = n

(***************************************************************************)
(* cosineSimilarity, src/group/clip.ts:145-150                             *)
(***************************************************************************)
RECURSIVE DotUpTo(_, _, _)
\* a.reduce((sum, v, i) => sum + v * b[i]!, 0): b[i] is undefined beyond b's
\* length, v * undefined is NaN, and NaN absorbs the rest of the sum.
DotUpTo(a, b, n) ==
    IF n = 0 THEN Ratio(0, 1)
    ELSE LET rest == DotUpTo(a, b, n - 1)
         IN  IF rest.kind = "nan" \/ n > Len(b) THEN NaN
             ELSE Ratio(rest.num + a[n] * b[n], 1)

Dot(a, b) == DotUpTo(a, b, Len(a))

RECURSIVE SumSq(_)
SumSq(a) == IF a = <<>> THEN 0 ELSE a[1] * a[1] + SumSq(Tail(a))

Norm(a) == Sqrt(SumSq(a))

cosineSimilarity(a, b) == Divide(Dot(a, b), Norm(a) * Norm(b))

(***************************************************************************)
(* phashSimilarity, src/group/index.ts:158-168                             *)
(***************************************************************************)
RECURSIVE HexValue(_)
\* BigInt("0x" + s) for a string s of hex digits (each digit a number 0..15).
HexValue(s) ==
    IF s = <<>> THEN 0
    ELSE 16 * HexValue(SubSeq(s, 1, Len(s) - 1)) + s[Len(s)]

\* BigInt("0x" + h) throws a SyntaxError unless h is a non-empty string of hex
\* digits; "0x" + null is "0xnull".
ParsesAsHex(h) ==
    /\ IsSome(h)
    /\ h[1] # <<>>
    /\ \A i \in 1..Len(h[1]) : h[1][i] \in 0..15

RECURSIVE BitXor(_, _)
BitXor(x, y) ==
    IF x = 0 /\ y = 0 THEN 0
    ELSE (((x % 2) + (y % 2)) % 2) + 2 * BitXor(x \div 2, y \div 2)

RECURSIVE BitAnd(_, _)
BitAnd(x, y) ==
    IF x = 0 \/ y = 0 THEN 0
    ELSE ((x % 2) * (y % 2)) + 2 * BitAnd(x \div 2, y \div 2)

RECURSIVE CountBits(_)
\* while (x) { x &= x - 1n; bits++; }
CountBits(x) == IF x = 0 THEN 0 ELSE 1 + CountBits(BitAnd(x, x - 1))

\* 1 - bits / 64, in sixty-fourths.
phashSimilarity(a, b) == 64 - CountBits(BitXor(HexValue(a), HexValue(b)))

(***************************************************************************)
(* areLinked, src/group/index.ts:95-136                                    *)
(***************************************************************************)
\* JavaScript truthiness: null and "" are falsy strings, null and 0 falsy numbers.
TruthyString(h) == IsSome(h) /\ h[1] # <<>>
TruthyNumber(t) == IsSome(t) /\ t[1] # 0

\* The hash comparison without the null check.
BothHashesUnguarded(a, b) == TRUE

\* a.hash && b.hash
BothHashes(a, b) == TruthyString(a.hash) /\ TruthyString(b.hash)

\* The call of phashSimilarity throws when BigInt cannot parse an operand.
areLinkedThrows(a, b) ==
    BothHashes(a, b) /\ ~(ParsesAsHex(a.hash) /\ ParsesAsHex(b.hash))

\* similar with > in place of >=.
similarStrict(a, b, c) ==
    IF BothHashes(a, b)
    THEN phashSimilarity(a.hash[1], b.hash[1]) * 100 > c.phashThreshold * 64
    ELSE FALSE

similar(a, b, c) ==
    IF BothHashes(a, b)
    THEN phashSimilarity(a.hash[1], b.hash[1]) * 100 >= c.phashThreshold * 64
    ELSE FALSE

cosineWithinTime(a, b, c) ==
    IF TruthyNumber(a.time) /\ TruthyNumber(b.time)
    THEN Abs(a.time[1] - b.time[1]) <= c.cosineMaxMinutes * 60000
    ELSE TRUE

\* closeInTime with < in place of <=.
closeInTimeStrict(a, b, c) ==
    IF IsSome(a.time) /\ IsSome(b.time)
    THEN Abs(a.time[1] - b.time[1]) < c.secondsSeparated * 1000
    ELSE FALSE

closeInTime(a, b, c) ==
    IF IsSome(a.time) /\ IsSome(b.time)
    THEN Abs(a.time[1] - b.time[1]) <= c.secondsSeparated * 1000
    ELSE FALSE

\* The third disjunct of the return: cos > threshold && !!cosineWithinTime.
semanticSignal(a, b, c) ==
    /\ GreaterThanHundredths(cosineSimilarity(a.clip, b.clip),
                             c.cosineSimilarityThreshold)
    /\ cosineWithinTime(a, b, c)

areLinked(a, b, c) ==
    similar(a, b, c) \/ closeInTime(a, b, c) \/ semanticSignal(a, b, c)

(***************************************************************************)
(* groupPhotosTransitive, src/group/index.ts:37-91                         *)
(***************************************************************************)
PhotoAt(p) == CHOOSE x \in {photos[i] : i \in 1..Len(photos)} : x.path = p

RECURSIVE Scan(_, _, _, _)
\* for (const other of photos) {...} for one popped photo: the used set and the
\* queue after the photos from position i on have been scanned.
Scan(i, current, u, q) ==
    IF i > Len(photos) THEN [used |-> u, queue |-> q]
    ELSE LET other == photos[i]
         IN  IF other.path \in u \/ other.path = current.path
             THEN Scan(i + 1, current, u, q)
             ELSE IF areLinked(current, other, cfg)
                  THEN Scan(i + 1, current, u \cup {other.path},
                            Append(q, other.path))
                  ELSE Scan(i + 1, current, u, q)

\* Some call of areLinked in that scan throws (the exception leaves
\* groupPhotosTransitive).
ScanThrows(current, u) ==
    \E i \in 1..Len(photos) :
        /\ photos[i].path \notin u
        /\ photos[i].path # current.path
        /\ areLinkedThrows(current, photos[i])

\* for (const seed of photos): if (used.has(seed.path)) continue;
SkipSeed ==
    /\ pc = "seed"
    /\ seedIdx <= Len(photos)
    /\ photos[seedIdx].path \in used
    /\ seedIdx' = seedIdx + 1
    /\ UNCHANGED <<photos, cfg, used, groups, group, queue, pc>>

\* StartGroup without used.add(seed.path).
StartGroupNoMark ==
    /\ pc = "seed"
    /\ seedIdx <= Len(photos)
    /\ photos[seedIdx].path \notin used
    /\ group' = <<>>
    /\ queue' = <<photos[seedIdx].path>>
    /\ pc' = "fill"
    /\ UNCHANGED <<photos, cfg, groups, seedIdx, used>>

\* group = []; queue = [seed]; used.add(seed.path)
StartGroup ==
    /\ pc = "seed"
    /\ seedIdx <= Len(photos)
    /\ photos[seedIdx].path \notin used
    /\ group' = <<>>
    /\ queue' = <<photos[seedIdx].path>>
    /\ used' = used \cup {photos[seedIdx].path}
    /\ pc' = "fill"
    /\ UNCHANGED <<photos, cfg, groups, seedIdx>>

\* One iteration of while (queue.length): pop, push to the group, scan.
PopAndScan ==
    /\ pc = "fill"
    /\ queue # <<>>
    /\ LET current == PhotoAt(queue[Len(queue)])
           rest == SubSeq(queue, 1, Len(queue) - 1)
       IN  IF ScanThrows(current, used)
           THEN /\ pc' = "threw"
                /\ queue' = rest
                /\ group' = Append(group, current.path)
                /\ UNCHANGED used
           ELSE LET r == Scan(1, current, used, rest)
                IN  /\ pc' = "fill"
                    /\ queue' = r.queue
                    /\ used' = r.used
                    /\ group' = Append(group, current.path)
    /\ UNCHANGED <<photos, cfg, groups, seedIdx>>

\* EmitGroup keeping only the components of two photos or more.
EmitGroupDropSingletons ==
    /\ pc = "fill"
    /\ queue = <<>>
    /\ groups' = IF Len(group) > 1 THEN Append(groups, group) ELSE groups
    /\ seedIdx' = seedIdx + 1
    /\ pc' = "seed"
    /\ UNCHANGED <<photos, cfg, used, group, queue>>

\* EmitGroup putting the component in front of the groups emitted before.
EmitGroupUnshift ==
    /\ pc = "fill"
    /\ queue = <<>>
    /\ groups' = <<group>> \o groups
    /\ seedIdx' = seedIdx + 1
    /\ pc' = "seed"
    /\ UNCHANGED <<photos, cfg, used, group, queue>>

\* groups.push(group.map((g) => ({ path: g.path }))), then the next seed.
EmitGroup ==
    /\ pc = "fill"
    /\ queue = <<>>
    /\ groups' = Append(groups, group)
    /\ seedIdx' = seedIdx + 1
    /\ pc' = "seed"
    /\ UNCHANGED <<photos, cfg, used, group, queue>>

\* return groups
Return ==
    /\ pc = "seed"
    /\ seedIdx > Len(photos)
    /\ pc' = "done"
    /\ UNCHANGED <<photos, cfg, used, groups, group, queue, seedIdx>>

(***************************************************************************)
(* weightedSum, src/unnamed/part_005:9-31 (sub-scores and weights in       *)
(* hundredths, the sum and the score in ten-thousandths)                   *)
(***************************************************************************)
Fields ==
    {"brightness", "contrast", "sharpness", "facePresence", "eyesOpen", "smiling"}

\* WEIGHTS with the contrast weight negated.
WEIGHTSNegativeContrast ==
    [brightness |-> 5, contrast |-> -10, sharpness |-> 10,
     facePresence |-> 15, eyesOpen |-> 15, smiling |-> 45]

WEIGHTS ==
    [brightness |-> 5, contrast |-> 10, sharpness |-> 10,
     facePresence |-> 15, eyesOpen |-> 15, smiling |-> 45]

\* 1.0 in ten-thousandths.
One == 100 * 100

\* clamp01 without the lower bound.
clamp01NoFloor(x) == Min(One, x)

\* Math.max(0, Math.min(1, x))
clamp01(x) == Max(0, Min(One, x))

\* rawSum without the brightness term.
rawSumNoBrightness(b) ==
    b.contrast * WEIGHTS.contrast
    + b.sharpness * WEIGHTS.sharpness + b.facePresence * WEIGHTS.facePresence
    + b.eyesOpen * WEIGHTS.eyesOpen + b.smiling * WEIGHTS.smiling

\* The weighted sum before the clamp.
rawSum(b) ==
    b.brightness * WEIGHTS.brightness + b.contrast * WEIGHTS.contrast
    + b.sharpness * WEIGHTS.sharpness + b.facePresence * WEIGHTS.facePresence
    + b.eyesOpen * WEIGHTS.eyesOpen + b.smiling * WEIGHTS.smiling

weightedSum(b) == clamp01(rawSum(b))

\* scoreImage, from the breakdown on: const score = weightedSum(breakdown).
ScoreImage ==
    /\ spc = "breakdown"
    /\ score' = weightedSum(breakdown)
    /\ spc' = "scored"
    /\ UNCHANGED breakdown

(***************************************************************************)
(* The scoring weights in main, src/index.ts:225-236                       *)
(***************************************************************************)
\* Number(x) || d for a numeric option x: 0 (and NaN) give the default d.
NumberOr(x, d) == IF x # 0 THEN x ELSE d

\* main builds the weights object for setScoreConfig from the six options.
MainSetScoreConfig ==
    /\ spc = "config"
    /\ cfgW' = [f \in Fields |-> NumberOr(argvW[f], WEIGHTS[f])]
    /\ spc' = "breakdown"
    /\ UNCHANGED <<breakdown, score, argvW>>

(***************************************************************************)
(* scoreImages and scoreImage, src/unnamed/part_005:173-305, with          *)
(* ensureFaceApi, src/score/vision.ts:38-53.  A per-photo call advances    *)
(* from one await to the next; the calls of one group interleave.          *)
(***************************************************************************)
Nets == {"ssdMobilenetv1", "faceLandmark68Net", "faceExpressionNet"}

ZeroFace == [facePresence |-> 0, eyesOpen |-> 0, smiling |-> 0]

\* The inference inside computeFaceSignals' try block throws; there is no
\* catch, the finally block disposes the tensor and the error leaves the call.
computeFaceSignalsThrows(x, skip) == ~skip /\ x.face = "throws"

\* computeFaceSignals without the skipFacialRecognition branch.
computeFaceSignalsNoSkip(x, skip) ==
    IF x.face = "none" THEN ZeroFace ELSE x.signals

\* computeFaceSignals when it returns: zeros when face recognition is
\* skipped or nothing is detected, else the signals of the picked face.
computeFaceSignals(x, skip) ==
    IF skip THEN ZeroFace
    ELSE IF x.face = "none" THEN ZeroFace
    ELSE x.signals

\* scoreImage's breakdown and result for the file x at path p.
BreakdownOf(x, skip) ==
    LET f == computeFaceSignals(x, skip)
    IN  [brightness |-> x.pixels.brightness, contrast |-> x.pixels.contrast,
         sharpness |-> x.pixels.sharpness, facePresence |-> f.facePresence,
         eyesOpen |-> f.eyesOpen, smiling |-> f.smiling]

ImageScoreOf(p, x, skip) ==
    [path |-> p, score |-> weightedSum(BreakdownOf(x, skip)),
     breakdown |-> BreakdownOf(x, skip)]

\* The value the map callback of scoreImages returns.
ScoreEntryOf(p, x, skip) ==
    [path |-> p, score |-> ImageScoreOf(p, x, skip), keep |-> FALSE]

\* Where a scoreImage call stands after its synchronous part: awaiting
\* fs.stat inside ensureFaceApi if the models are not flagged loaded, else
\* awaiting the image buffer.
TaskStart(skip, loaded) == IF skip \/ loaded THEN "read" ELSE "stat"

\* g.map(async (x) => ...): every callback runs up to its first await.
StartTasks(g, skip, loaded) == [j \in 1..Len(g) |-> TaskStart(skip, loaded)]

\* Promise.all taking the values in the order the promises resolved.
PromiseAllInSettleOrder(done, n) == [k \in 1..n |-> done[k].value]

\* Promise.all: the value at index j is the value of the j-th promise.
PromiseAll(done, n) ==
    [j \in 1..n |->
        LET k == CHOOSE k \in 1..Len(done) : done[k].index = j
        IN  done[k].value]

\* scoreImages up to its first await: ng = [], then the tasks of group 0.
CallScoreImages ==
    /\ bpc = "call"
    /\ ng' = <<>>
    /\ settled' = <<>>
    /\ IF igroups = <<>>
       THEN bpc' = "returned" /\ gi' = 1 /\ tpc' = <<>>
       ELSE /\ bpc' = "await"
            /\ gi' = 1
            /\ tpc' = StartTasks(igroups[1], skipFace, modelsLoaded)
    /\ UNCHANGED <<igroups, files, skipFace, modelsLoaded, loads>>

\* ensureFaceApi after fs.stat: the first net's loadFromDisk is called.
StatResolved(j) ==
    /\ bpc = "await"
    /\ tpc[j] = "stat"
    /\ tpc' = [tpc EXCEPT ![j] = "ssdMobilenetv1"]
    /\ loads' = [loads EXCEPT !["ssdMobilenetv1"] = @ + 1]
    /\ UNCHANGED <<igroups, files, skipFace, modelsLoaded, gi, settled, ng, bpc>>

\* ensureFaceApi after a net's loadFromDisk: the next net is loaded, and
\* after the last one modelsLoaded = true and scoreImage goes on to read.
NetLoaded(j) ==
    /\ bpc = "await"
    /\ tpc[j] \in Nets
    /\ IF tpc[j] = "ssdMobilenetv1"
       THEN /\ tpc' = [tpc EXCEPT ![j] = "faceLandmark68Net"]
            /\ loads' = [loads EXCEPT !["faceLandmark68Net"] = @ + 1]
            /\ UNCHANGED modelsLoaded
       ELSE IF tpc[j] = "faceLandmark68Net"
       THEN /\ tpc' = [tpc EXCEPT ![j] = "faceExpressionNet"]
            /\ loads' = [loads EXCEPT !["faceExpressionNet"] = @ + 1]
            /\ UNCHANGED modelsLoaded
       ELSE /\ tpc' = [tpc EXCEPT ![j] = "read"]
            /\ modelsLoaded' = TRUE
            /\ UNCHANGED loads
    /\ UNCHANGED <<igroups, files, skipFace, gi, settled, ng, bpc>>

\* scoreImage after sharp(filePath).toFormat("png").toBuffer(): brightness,
\* contrast and sharpness are computed from the buffer.  An unreadable file
\* rejects the call, Promise.all rejects, and scoreImages, which has no
\* catch, rejects.
BufferRead(j) ==
    /\ bpc = "await"
    /\ tpc[j] = "read"
    /\ IF files[igroups[gi][j].path].readable
       THEN tpc' = [tpc EXCEPT ![j] = "face"] /\ UNCHANGED bpc
       ELSE tpc' = [tpc EXCEPT ![j] = "rejected"] /\ bpc' = "rejected"
    /\ UNCHANGED <<igroups, files, skipFace, modelsLoaded, loads, gi, settled, ng>>

\* scoreImage from computeFaceSignals to its return, and the map callback's
\* return of { path, score, keep: false }.
FaceSignals(j) ==
    /\ bpc = "await"
    /\ tpc[j] = "face"
    /\ LET p == igroups[gi][j].path
       IN  IF computeFaceSignalsThrows(files[p], skipFace)
           THEN /\ tpc' = [tpc EXCEPT ![j] = "rejected"]
                /\ bpc' = "rejected"
                /\ UNCHANGED settled
           ELSE /\ tpc' = [tpc EXCEPT ![j] = "done"]
                /\ settled' =
                     Append(settled,
                            [index |-> j,
                             value |-> ScoreEntryOf(p, files[p], skipFace)])
                /\ UNCHANGED bpc
    /\ UNCHANGED <<igroups, files, skipFace, modelsLoaded, loads, gi, ng>>

\* await Promise.all(...) resumes: ng.push(sg), then the tasks of the next
\* group, or b.complete() and return ng.
GroupSettled ==
    /\ bpc = "await"
    /\ \A j \in 1..Len(tpc) : tpc[j] = "done"
    /\ ng' = Append(ng, PromiseAll(settled, Len(tpc)))
    /\ IF gi < Len(igroups)
       THEN /\ gi' = gi + 1
            /\ tpc' = StartTasks(igroups[gi + 1], skipFace, modelsLoaded)
            /\ settled' = <<>>
            /\ UNCHANGED bpc
       ELSE /\ bpc' = "returned"
            /\ UNCHANGED <<gi, tpc, settled>>
    /\ UNCHANGED <<igroups, files, skipFace, modelsLoaded, loads>>

(***************************************************************************)
(* The review: reviewGroupBun and reviewAllGroupsBun (src/review/review.ts) *)
(* and the page's load (src/review/script.js).  Indices are 0-based as in  *)
(* the source; member k of a sequence has index k - 1.                     *)
(***************************************************************************)
\* A JSON value the page tests with typeof.
JsonNumber(n) == [type |-> "number", value |-> n]
JsonObject(o) == [type |-> "object", value |-> o]

RECURSIVE RecommendedFrom(_, _, _, _)
\* reviewGroupBun's loop over scores.entries(), from member k on, with the
\* best score and its index so far.
RecommendedFrom(g, k, best, idx) ==
    IF k > Len(g) THEN idx
    ELSE IF g[k].score.score > best
         THEN RecommendedFrom(g, k + 1, g[k].score.score, k - 1)
         ELSE RecommendedFrom(g, k + 1, best, idx)

\* let recommendedIndex = 0; let best = 0; for (...) { ... }
RecommendedIndexOf(g) == RecommendedFrom(g, 1, 0, 0)

\* /api/data of reviewGroupBun: { items: [{ i, score: scores[i], recommended }] },
\* where scores[i] is the ImageScore object of member i.
SingleData(g, rec) ==
    [shape |-> "items",
     list |-> [k \in 1..Len(g) |->
                 [i |-> k - 1, score |-> JsonObject(g[k].score),
                  recommended |-> (k - 1 = rec)]]]

\* A group of /api/data of reviewAllGroupsBun: the raw ScoreEntry array.
RawGroup(g) == [shape |-> "array", list |-> g]

\* bestIndexForGroup's array arr: group.items as it is, a raw array mapped to
\* { i, score: entry.score.score }.
BestIndexItems(payload) ==
    IF payload.shape = "items" THEN payload.list
    ELSE [k \in 1..Len(payload.list) |->
            [i |-> k - 1, score |-> JsonNumber(payload.list[k].score.score)]]

RECURSIVE BestIndexFrom(_, _, _, _)
\* bestIndexForGroup's loop from position k on; bestScore is None for
\* -Infinity.  An item whose score is not a number counts as -Infinity, and
\* -Infinity > bestScore is false.
BestIndexFrom(arr, k, best, bestScore) ==
    IF k > Len(arr) THEN best
    ELSE IF /\ arr[k].score.type = "number"
            /\ (bestScore = None \/ arr[k].score.value > bestScore[1])
         THEN BestIndexFrom(arr, k + 1, Some(arr[k].i), Some(arr[k].score.value))
         ELSE BestIndexFrom(arr, k + 1, best, bestScore)

\* bestIndexForGroup: null (None) or the index found.
bestIndexForGroup(payload) ==
    BestIndexFrom(BestIndexItems(payload), 1, None, None)

\* new Set(idx != null ? [idx] : [])
SelectionOf(idx) == IF IsSome(idx) THEN {idx[1]} ELSE {}

\* reviewGroupBun up to Bun.serve: recommendedIndex is computed.
ReviewGroupBun ==
    /\ rpc = "call"
    /\ rmode = "single"
    /\ recommendedIndex' = RecommendedIndexOf(scored[1])
    /\ rpc' = "serving"
    /\ UNCHANGED <<rmode, scored, selections, allKeeps>>
    /\ UNCHANGED pvars

\* reviewAllGroupsBun up to Bun.serve.
ReviewAllGroupsBun ==
    /\ rpc = "call"
    /\ rmode = "multi"
    /\ rpc' = "serving"
    /\ UNCHANGED <<rmode, scored, recommendedIndex, selections, allKeeps>>
    /\ UNCHANGED pvars

\* The page's load(): GET /api/data, then the initial selection of every
\* group (multi mode) or of the one group (single mode).
Load ==
    /\ rpc = "serving"
    /\ selections' =
         IF rmode = "multi"
         THEN [g \in 1..Len(scored) |->
                 SelectionOf(bestIndexForGroup(RawGroup(scored[g])))]
         ELSE <<SelectionOf(bestIndexForGroup(
                    SingleData(scored[1], recommendedIndex)))>>
    /\ currentGroup' = 0
    /\ selected' = selections'[1]
    /\ rpc' = "loaded"
    /\ UNCHANGED <<rmode, scored, recommendedIndex, allKeeps>>
    /\ UNCHANGED <<posted, status, decision>>

(***************************************************************************)
(* The page's handlers (src/review/script.js) and POST /api/decide         *)
(***************************************************************************)
\* The indices i of the displayed items.
ItemIndices == 0..(Len(scored[currentGroup + 1]) - 1)

\* The click handler of a card's select button.
Toggle(i) ==
    /\ rpc = "loaded"
    /\ i \in ItemIndices
    /\ selected' = IF i \in selected THEN selected \ {i} ELSE selected \cup {i}
    /\ UNCHANGED <<rmode, scored, recommendedIndex, selections, allKeeps, rpc>>
    /\ UNCHANGED <<currentGroup, posted, status, decision>>

selectNone ==
    /\ rpc = "loaded"
    /\ selected' = {}
    /\ UNCHANGED <<rmode, scored, recommendedIndex, selections, allKeeps, rpc>>
    /\ UNCHANGED <<currentGroup, posted, status, decision>>

selectAll ==
    /\ rpc = "loaded"
    /\ selected' = ItemIndices
    /\ UNCHANGED <<rmode, scored, recommendedIndex, selections, allKeeps, rpc>>
    /\ UNCHANGED <<currentGroup, posted, status, decision>>

selectRecommended ==
    /\ rpc = "loaded"
    /\ selected' =
         SelectionOf(
             IF rmode = "multi"
             THEN bestIndexForGroup(RawGroup(scored[currentGroup + 1]))
             ELSE bestIndexForGroup(SingleData(scored[1], recommendedIndex)))
    /\ UNCHANGED <<rmode, scored, recommendedIndex, selections, allKeeps, rpc>>
    /\ UNCHANGED <<currentGroup, posted, status, decision>>

\* groupSelections[currentGroup] = new Set(Array.from(selected))
Persisted == [selections EXCEPT ![currentGroup + 1] = selected]

\* The next-group handler, without the write to groupSelections.
NextGroupClickNoPersist ==
    /\ rpc = "loaded"
    /\ rmode = "multi"
    /\ UNCHANGED selections
    /\ IF currentGroup < Len(scored) - 1
       THEN /\ currentGroup' = currentGroup + 1
            /\ selected' = selections[currentGroup + 2]
       ELSE UNCHANGED <<currentGroup, selected>>
    /\ UNCHANGED <<rmode, scored, recommendedIndex, allKeeps, rpc>>
    /\ UNCHANGED <<posted, status, decision>>

\* The prev-group handler: persist, then loadGroup(currentGroup - 1).
PrevGroupClick ==
    /\ rpc = "loaded"
    /\ rmode = "multi"
    /\ selections' = Persisted
    /\ IF currentGroup > 0
       THEN /\ currentGroup' = currentGroup - 1
            /\ selected' = Persisted[currentGroup]
       ELSE UNCHANGED <<currentGroup, selected>>
    /\ UNCHANGED <<rmode, scored, recommendedIndex, allKeeps, rpc>>
    /\ UNCHANGED <<posted, status, decision>>

\* The next-group handler: persist, then loadGroup(currentGroup + 1).
NextGroupClick ==
    /\ rpc = "loaded"
    /\ rmode = "multi"
    /\ selections' = Persisted
    /\ IF currentGroup < Len(scored) - 1
       THEN /\ currentGroup' = currentGroup + 1
            /\ selected' = Persisted[currentGroup + 2]
       ELSE UNCHANGED <<currentGroup, selected>>
    /\ UNCHANGED <<rmode, scored, recommendedIndex, allKeeps, rpc>>
    /\ UNCHANGED <<posted, status, decision>>

\* JSON values of a decide body's fields.
Undefined == [type |-> "undefined", list |-> <<>>]
NotArray == [type |-> "number", list |-> <<>>]
JsonArray(l) == [type |-> "array", list |-> l]

RECURSIVE ArrayFrom(_)
\* Array.from(set).  The Set's insertion order is not tracked: the list is
\* taken in descending order, the one a sort has most to do on.
ArrayFrom(S) ==
    IF S = {} THEN <<>>
    ELSE LET m == CHOOSE x \in S : \A y \in S : y <= x
         IN  <<m>> \o ArrayFrom(S \ {m})

RECURSIVE SortAscending(_)
\* list.sort((a, b) => a - b)
SortAscending(l) ==
    IF l = <<>> THEN <<>>
    ELSE LET k == CHOOSE j \in 1..Len(l) : \A h \in 1..Len(l) : l[j] <= l[h]
             Others == [h \in 1..(Len(l) - 1) |-> IF h < k THEN l[h] ELSE l[h + 1]]
         IN  <<l[k]>> \o SortAscending(Others)

\* The finish handler up to the POST: persist, then one sorted list per group.
Finish ==
    /\ rpc = "loaded"
    /\ rmode = "multi"
    /\ selections' = Persisted
    /\ posted' =
         Some([valid |-> TRUE, keep |-> Undefined,
               results |->
                 JsonArray([g \in 1..Len(Persisted) |->
                              SortAscending(ArrayFrom(Persisted[g]))])])
    /\ rpc' = "posting"
    /\ UNCHANGED <<rmode, scored, recommendedIndex, allKeeps>>
    /\ UNCHANGED <<currentGroup, selected, status, decision>>

\* save() of the single-group page up to the POST.
Save ==
    /\ rpc = "loaded"
    /\ rmode = "single"
    /\ posted' =
         Some([valid |-> TRUE, results |-> Undefined,
               keep |-> JsonArray(SortAscending(ArrayFrom(selected)))])
    /\ rpc' = "posting"
    /\ UNCHANGED <<rmode, scored, recommendedIndex, selections, allKeeps>>
    /\ UNCHANGED <<currentGroup, selected, status, decision>>

\* Bodies a client can post that hold no decision: text that is not JSON, an
\* object without the field, an object whose field is not an array.
MalformedBodies ==
    { [valid |-> FALSE, keep |-> Undefined, results |-> Undefined],
      [valid |-> TRUE, keep |-> Undefined, results |-> Undefined],
      [valid |-> TRUE, keep |-> NotArray, results |-> NotArray] }

\* POST /api/decide.  reviewGroupBun answers 400 unless body.keep is an array
\* and resolves with it sorted; reviewAllGroupsBun answers 400 only when
\* req.json() throws and resolves with body.results as it is.
PostDecide(body) ==
    /\ rpc \in {"serving", "loaded", "posting"}
    /\ decision = None
    /\ body \in MalformedBodies \/ posted = Some(body)
    /\ IF rmode = "single"
       THEN IF ~body.valid \/ body.keep.type # "array"
            THEN status' = 400 /\ UNCHANGED <<decision, rpc>>
            ELSE /\ status' = 200
                 /\ decision' = Some(JsonArray(SortAscending(body.keep.list)))
                 /\ rpc' = "decided"
       ELSE IF ~body.valid
            THEN status' = 400 /\ UNCHANGED <<decision, rpc>>
            ELSE /\ status' = 200
                 /\ decision' = Some(body.results)
                 /\ rpc' = "decided"
    /\ allKeeps' =
         IF rmode = "multi" /\ body.valid /\ body.results.type = "array"
         THEN body.results.list ELSE allKeeps
    /\ UNCHANGED <<rmode, scored, recommendedIndex, selections>>
    /\ UNCHANGED <<currentGroup, selected, posted>>

(***************************************************************************)
(* main around scoreImages and the review, src/index.ts:266-281            *)
(***************************************************************************)
\* The forEach of main with 1-based indices taken for the 0-based ones.
KeepAppliedOneBased(sc, keeps) ==
    [g \in 1..Len(sc) |->
        [k \in 1..Len(sc[g]) |->
            IF g <= Len(keeps) /\ \E m \in 1..Len(keeps[g]) : keeps[g][m] = k
            THEN [sc[g][k] EXCEPT !.keep = TRUE]
            ELSE sc[g][k]]]

\* allKeeps.forEach((indices, groupIndex) => indices.forEach((i) => { if
\* (scored?.[groupIndex] && scored[groupIndex][i]) ....keep = true })).
KeepApplied(sc, keeps) ==
    [g \in 1..Len(sc) |->
        [k \in 1..Len(sc[g]) |->
            IF g <= Len(keeps) /\ \E m \in 1..Len(keeps[g]) : keeps[g][m] = k - 1
            THEN [sc[g][k] EXCEPT !.keep = TRUE]
            ELSE sc[g][k]]]

\* scored = await scoreImages(groups, MODELS_DIR); if (scored.length > 0)
\* reviewAllGroupsBun(scored, ...) is called.
ScoreImagesReturned ==
    /\ bpc = "returned"
    /\ rpc = "idle"
    /\ scored' = ng
    /\ rmode' = "multi"
    /\ rpc' = IF Len(ng) > 0 THEN "call" ELSE "skipped"
    /\ UNCHANGED <<recommendedIndex, selections, allKeeps>>
    /\ UNCHANGED pvars

\* POST /api/decide of reviewAllGroupsBun: the posted results resolve the
\* review, whatever they are.
Decide(results) ==
    /\ rpc = "loaded"
    /\ rmode = "multi"
    /\ allKeeps' = results
    /\ rpc' = "decided"
    /\ UNCHANGED <<rmode, scored, recommendedIndex, selections>>
    /\ UNCHANGED pvars

\* main marks the kept entries.
ApplyKeeps ==
    /\ rpc = "decided"
    /\ scored' = KeepApplied(scored, allKeeps)
    /\ rpc' = "applied"
    /\ UNCHANGED <<rmode, recommendedIndex, selections, allKeeps>>
    /\ UNCHANGED pvars

(***************************************************************************)
(* Inputs                                                                  *)
(***************************************************************************)
\* The largest batch handed to the grouper.
NumPhotos == 3

\* groupPhotos' defaults, src/group/index.ts:18-21.
DefaultConfig ==
    [phashThreshold |-> 85, secondsSeparated |-> 10,
     cosineSimilarityThreshold |-> 80, cosineMaxMinutes |-> 60 * 24]

Hash00 == <<0, 0>>
Hash01 == <<0, 1>>
HashFF == <<15, 15>>

TwoHours == 2 * 60 * 60 * 1000
ThreeDays == 3 * 24 * 60 * 60 * 1000

Attrs(h, t, e) == [hash |-> h, time |-> t, clip |-> e]
Image(p, x) == [path |-> p, hash |-> x.hash, time |-> x.time, clip |-> x.clip]

\* A record with all three signals absent.
AbsentAttrs == Attrs(None, None, <<>>)

\* The records of the grouper's batches: missing signals, equal hashes with far
\* apart times, a chain of capture times, embeddings of two lengths.
GroupPool ==
    { AbsentAttrs,
      Attrs(Some(Hash00), Some(0), <<>>),
      Attrs(Some(Hash00), Some(ThreeDays), <<1, 0>>),
      Attrs(None, Some(8000), <<>>),
      Attrs(None, Some(16000), <<3, 4>>),
      Attrs(None, None, <<1>>),
      Attrs(Some(HashFF), None, <<1, 0>>),
      Attrs(Some(Hash01), Some(TwoHours), <<4, 3>>) }

GroupConfigs ==
    { DefaultConfig,
      [DefaultConfig EXCEPT !.phashThreshold = 100, !.cosineMaxMinutes = 60],
      [DefaultConfig EXCEPT !.phashThreshold = 101] }

\* The records and thresholds areLinked is called on.
LinkHashes == {None, Some(Hash00), Some(Hash01), Some(HashFF)}
LinkTimes ==
    {None, Some(0), Some(2000), Some(10000), Some(20000), Some(TwoHours),
     Some(ThreeDays)}
LinkClips == {<<>>, <<0, 0>>, <<1, 0>>, <<3, 4>>, <<4, 3>>, <<1>>}
LinkPool == {Attrs(h, t, e) : h \in LinkHashes, t \in LinkTimes, e \in LinkClips}
LinkConfigs ==
    { [DefaultConfig EXCEPT !.phashThreshold = pt, !.cosineMaxMinutes = cm] :
        pt \in {85, 100}, cm \in {60, 60 * 24} }

\* Sub-scores, in hundredths; the source does not clamp them.
SubScores == {-50, 0, 50, 100, 150}

\* A well lit, sharp portrait: brightness 0.9, contrast 0.8, sharpness 0.95 and
\* the three face signals at 1.0.
PortraitBreakdown ==
    [brightness |-> 90, contrast |-> 80, sharpness |-> 95,
     facePresence |-> 100, eyesOpen |-> 100, smiling |-> 100]

\* Weight sets given on the command line (the options default to WEIGHTS):
\* the defaults, equal weights, smile only, the defaults without brightness.
WeightSets ==
    { WEIGHTS,
      [f \in Fields |-> 20],
      [f \in Fields |-> IF f = "smiling" THEN 100 ELSE 0],
      [WEIGHTS EXCEPT !.brightness = 0] }

\* Sub-scores of the photos scored under a weight set.
UnitScores == {0, 100}

\* The largest number of photos in a batch that is scored or reviewed.
MaxBatch == 3

\* Brightness, contrast and sharpness of the readable files.
SharpPixels == [brightness |-> 90, contrast |-> 80, sharpness |-> 95]

\* What a path can hold: a portrait, a photo without a face, a photo on
\* which the face inference throws, a file that cannot be decoded.
FileKinds ==
    { [readable |-> TRUE, pixels |-> SharpPixels, face |-> "found",
       signals |-> [facePresence |-> 100, eyesOpen |-> 100, smiling |-> 100]],
      [readable |-> TRUE, pixels |-> SharpPixels, face |-> "none",
       signals |-> ZeroFace],
      [readable |-> TRUE, pixels |-> SharpPixels, face |-> "throws",
       signals |-> ZeroFace],
      [readable |-> FALSE, pixels |-> SharpPixels, face |-> "none",
       signals |-> ZeroFace] }

\* The group (1-based) of photo p when starts[q] says that photo q opens a
\* new group.
GroupNumber(starts, p) == Cardinality({q \in 1..p : starts[q]})

\* The photos 1..n cut into non-empty groups of consecutive paths.
Batch(n, starts) ==
    [g \in 1..GroupNumber(starts, n) |->
        LET InGroup(e) == GroupNumber(starts, e.path) = g
        IN  SelectSeq([p \in 1..n |-> [path |-> p]], InGroup)]

\* Breakdowns of the photos put under review (composites 0, 0.22, 0.97).
ReviewBreakdowns ==
    { [f \in Fields |-> 0],
      PortraitBreakdown,
      [PortraitBreakdown EXCEPT
          !.facePresence = 0, !.eyesOpen = 0, !.smiling = 0] }

\* The output of scoreImages for a batch whose photo p has breakdown f[p].
ScoredBatch(n, starts, f) ==
    LET b == Batch(n, starts)
    IN  [g \in 1..Len(b) |->
            [k \in 1..Len(b[g]) |->
                LET p == b[g][k].path
                IN  [path |-> p,
                     score |-> [path |-> p, score |-> weightedSum(f[p]),
                                breakdown |-> f[p]],
                     keep |-> FALSE]]]

\* Index lists a review can resolve with for one group: nothing kept, the
\* first two members out of order, indices outside every group.
IndexLists == {<<>>, <<1, 0>>, <<-1, MaxBatch>>}

\* Review results for n groups: one list per group, one list short, one extra.
ReviewResults(n) == UNION {[1..m -> IndexLists] : m \in {n - 1, n, n + 1}}

\* Breakdowns of the photos main's steps work on (composites 0.97 and 0).
MainBreakdowns == {PortraitBreakdown, [f \in Fields |-> 0]}

\* What the group step can leave in scored for n files: the files in
\* consecutive non-empty groups, scored, with the keep flags of a review
\* result of one index list per group.
GroupStepResults(n) ==
    UNION { UNION { { KeepApplied(ScoredBatch(n, starts, f), results) :
                        results \in [1..GroupNumber(starts, n) -> IndexLists] } :
                    f \in [1..n -> MainBreakdowns] } :
            starts \in {b \in [1..n -> BOOLEAN] : n > 0 => b[1]} }

(***************************************************************************)
(* main's steps, src/index.ts:238-338, and moveDups, src/moves/move.ts     *)
(***************************************************************************)
Steps == {"group", "move", "rename", "compress"}

\* const shouldRun = (s) => !skipSet.has(s)
shouldRun(step) == step \notin skipSet

\* The entries of all groups, flattened.
Flat(gs) ==
    UNION {{gs[g][k] : k \in 1..Len(gs[g])} : g \in 1..Len(gs)}

\* moveDups: the paths of the entries with keep false, which are renamed to
\* the destination folder.
MovedBy(gs) == {e.path : e \in {x \in Flat(gs) : ~x.keep}}

\* chosen.flat().filter((e) => e.keep).map((e) => e.path)
KeptFiles(gs) ==
    LET AllPaths == {e.path : e \in {x \in Flat(gs) : x.keep}}
        Kept(p) == p \in AllPaths
    IN  SelectSeq(filesAbs, Kept)

\* keptFiles.length > 0 ? keptFiles : filesAbs
ListForRename(gs) == IF KeptFiles(gs) # <<>> THEN KeptFiles(gs) ELSE filesAbs

\* Step 1 skipped: scored stays undefined.
GroupSkipped ==
    /\ mpc = "group"
    /\ ~shouldRun("group")
    /\ mpc' = "move"
    /\ UNCHANGED <<filesAbs, skipSet, mscored, chosen, where, renameList, ran,
                   merror, exitCode>>

\* Step 1: grouping, scoring and review leave the reviewed ScoreGroups in
\* scored; chosen is not written.
GroupStep ==
    /\ mpc = "group"
    /\ shouldRun("group")
    /\ \E result \in GroupStepResults(Len(filesAbs)) : mscored' = Some(result)
    /\ ran' = ran \cup {"group"}
    /\ mpc' = "move"
    /\ UNCHANGED <<filesAbs, skipSet, chosen, where, renameList, merror,
                   exitCode>>

\* Step 1 rejecting (a scoring failure, say): main().catch sets the exit code.
GroupStepFails ==
    /\ mpc = "group"
    /\ shouldRun("group")
    /\ filesAbs # <<>>
    /\ ran' = ran \cup {"group"}
    /\ merror' = "group step failed"
    /\ exitCode' = 1
    /\ mpc' = "failed"
    /\ UNCHANGED <<filesAbs, skipSet, mscored, chosen, where, renameList>>

\* Step 3 running moveDups although scored is undefined.
MoveStepUnguarded ==
    /\ mpc = "move"
    /\ IF shouldRun("move")
       THEN /\ ran' = ran \cup {"move"}
            /\ where' =
                 IF mscored = None THEN where
                 ELSE [p \in DOMAIN where |->
                         IF p \in MovedBy(mscored[1]) THEN "out" ELSE where[p]]
       ELSE UNCHANGED <<ran, where>>
    /\ mpc' = "rename"
    /\ UNCHANGED <<merror, exitCode>>
    /\ UNCHANGED <<filesAbs, skipSet, mscored, chosen, renameList>>

\* Step 3: throw without scores, else moveDups(scored, out); the throw is
\* caught by main().catch, which sets process.exitCode = 1.
MoveStep ==
    /\ mpc = "move"
    /\ IF ~shouldRun("move")
       THEN /\ mpc' = "rename"
            /\ UNCHANGED <<ran, where, merror, exitCode>>
       ELSE IF mscored = None
       THEN /\ merror' = "Cannot run 'move' without scores"
            /\ exitCode' = 1
            /\ mpc' = "failed"
            /\ UNCHANGED <<ran, where>>
       ELSE /\ ran' = ran \cup {"move"}
            /\ where' =
                 [p \in DOMAIN where |->
                     IF p \in MovedBy(mscored[1]) THEN "out" ELSE where[p]]
            /\ mpc' = "rename"
            /\ UNCHANGED <<merror, exitCode>>
    /\ UNCHANGED <<filesAbs, skipSet, mscored, chosen, renameList>>

\* Step 4: tagAndRenameFiles(listForRename, ...), the list taken from chosen.
RenameStep ==
    /\ mpc = "rename"
    /\ IF shouldRun("rename")
       THEN /\ renameList' = Some(ListForRename(chosen))
            /\ ran' = ran \cup {"rename"}
       ELSE UNCHANGED <<renameList, ran>>
    /\ mpc' = "compress"
    /\ UNCHANGED <<filesAbs, skipSet, mscored, chosen, where, merror, exitCode>>

\* Step 5: compressImagesInFolder, then main returns.
CompressStep ==
    /\ mpc = "compress"
    /\ ran' = IF shouldRun("compress") THEN ran \cup {"compress"} ELSE ran
    /\ mpc' = "exited"
    /\ UNCHANGED <<filesAbs, skipSet, mscored, chosen, where, renameList,
                   merror, exitCode>>

(***************************************************************************)
(* The rename step: tagAndRenameFiles, proposeRename and ensureUniquePath  *)
(* (src/rename/rename.ts).  A file name is {base, ext}: base is the name   *)
(* without extension cut at its dashes, <<"cat", 1>> being "cat-1".        *)
(***************************************************************************)
\* The most files in the list handed to the rename step.
MaxFiles == 3

FileName(b, e) == [base |-> b, ext |-> e]

\* ext.toLowerCase()
ToLowerCase(e) == IF e = "JPG" THEN "jpg" ELSE e

\* The slugs tagging can give, and what tagging a file can come to: an error
\* (sharp or the model call throws), no tags, or a slug.
Slugs == {"cat", "cats"}
TagOutcomes == {"throws", "none"} \cup Slugs

\* word.startsWith(prefix) on the words of the model.
WordStartsWith(word, prefix) ==
    word = prefix \/ (word = "cats" /\ prefix = "cat")

\* base.startsWith(safe): a slug holds no dash, so only the first part of
\* the base is compared.
StartsWith(name, safe) == WordStartsWith(name.base[1], safe)

\* fs.access(candidate) succeeds.
Exists(disk, candidate) == \E f \in disk : f.name = candidate

RECURSIVE ensureUniqueFrom(_, _, _, _)
\* ensureUniquePath's loop with counter i and the candidate reached.
ensureUniqueFrom(disk, p, i, candidate) ==
    IF Exists(disk, candidate)
    THEN ensureUniqueFrom(disk, p, i + 1,
                          FileName(p.base \o <<i + 1>>, p.ext))
    ELSE candidate

\* ensureUniquePath returning its argument without looking at the disk.
ensureUniquePathNoAccess(disk, p) == p

ensureUniquePath(disk, p) == ensureUniqueFrom(disk, p, 0, p)

\* fs.rename(absPath, target): the file takes the name target; a file that
\* had this name is replaced.
Rename(disk, absPath, target) ==
    {f \in disk : f.name \notin {absPath, target}}
        \cup {[name |-> target, orig |-> f.orig] : f \in {h \in disk : h.name = absPath}}

\* proposeRename: the disk after it.
proposeRename(disk, absPath, safe) ==
    IF StartsWith(absPath, safe) THEN disk
    ELSE LET target ==
                 ensureUniquePath(disk,
                     FileName(<<safe>>, ToLowerCase(absPath.ext)))
         IN  IF target # absPath THEN Rename(disk, absPath, target) ELSE disk

\* One turn of tagAndRenameFiles' loop: sharp reads the file (and throws if
\* it is not there), tagging gives its outcome, proposeRename runs when
\* there are tags; an error is logged and the file skipped.
ProcessFile(outcome) ==
    /\ npc = "loop"
    /\ fileIdx <= Len(selectedFiles)
    /\ ~Exists(folder, selectedFiles[fileIdx]) => outcome = "throws"
    /\ folder' =
         IF outcome \in Slugs
         THEN proposeRename(folder, selectedFiles[fileIdx], outcome)
         ELSE folder
    /\ tagged' = Append(tagged, outcome)
    /\ fileIdx' = fileIdx + 1
    /\ UNCHANGED <<selectedFiles, npc>>

\* The loop is over: b.complete().
Complete ==
    /\ npc = "loop"
    /\ fileIdx > Len(selectedFiles)
    /\ npc' = "complete"
    /\ UNCHANGED <<folder, selectedFiles, fileIdx, tagged>>

\* Names of the files of a folder before the rename step.
NamePool ==
    { FileName(<<"img">>, "jpg"), FileName(<<"img">>, "JPG"),
      FileName(<<"cat">>, "jpg"), FileName(<<"cats">>, "jpg"),
      FileName(<<"cat", 1>>, "jpg") }

\* The lists of at most n pairwise distinct names.
FileLists(n) ==
    UNION { {l \in [1..m -> NamePool] :
                \A h, k \in 1..m : h # k => l[h] # l[k]} : m \in 0..n }

(***************************************************************************)
(* main's group step up to scoring, src/index.ts:242-266, and              *)
(* preGroupPhotos, src/unnamed/part_002:14-59.  Classifier scores and the  *)
(* threshold are in ten-thousandths.                                       *)
(***************************************************************************)
\* Number(argv["pregroup-threshold"]) || 0.0001
PregroupThreshold == 1

\* The options main passes to groupPhotos when the command line gives none.
MainGroupConfig ==
    [phashThreshold |-> 80, secondsSeparated |-> 5,
     cosineSimilarityThreshold |-> 80, cosineMaxMinutes |-> 60 * 12]

\* What classifying one image can come to: the call throws, no classifier
\* (null), or the best label with its score.
Classified(kind, label, s) == [kind |-> kind, label |-> label, score |-> s]
ClassifyOutcomes ==
    {Classified("throws", "", 0), Classified("null", "", 0)}
        \cup {Classified("best", l, PregroupThreshold) : l \in labels}
        \cup {Classified("best", l, 5000) : l \in labels}

\* groups.set(best.label, [...groups.get(best.label), img]) or
\* groups.set(best.label, [img])
MapAppend(map, label, path) ==
    IF \E k \in 1..Len(map) : map[k].label = label
    THEN [k \in 1..Len(map) |->
            IF map[k].label = label
            THEN [map[k] EXCEPT !.items = Append(@, path)]
            ELSE map[k]]
    ELSE Append(map, [label |-> label, items |-> <<path>>])

\* if (images.length === 0 || labels.length === 0) return [];
PreGroupNothing ==
    /\ qpc = "classify"
    /\ Len(clipped) = 0 \/ labels = {}
    /\ qpc' = "filter"
    /\ UNCHANGED <<clipped, labels, pgroups, pidx, classes, handed>>

\* One turn of preGroupPhotos' loop.
Classify(outcome) ==
    /\ qpc = "classify"
    /\ Len(clipped) # 0 /\ labels # {}
    /\ pidx <= Len(clipped)
    /\ pgroups' =
         IF outcome.kind = "best" /\ outcome.score > PregroupThreshold
         THEN MapAppend(pgroups, outcome.label, clipped[pidx].path)
         ELSE pgroups
    /\ classes' = Append(classes, outcome)
    /\ pidx' = pidx + 1
    /\ UNCHANGED <<clipped, labels, handed, qpc>>

\* return Array.from(groups.values())
PreGroupReturn ==
    /\ qpc = "classify"
    /\ Len(clipped) # 0 /\ labels # {}
    /\ pidx > Len(clipped)
    /\ qpc' = "filter"
    /\ UNCHANGED <<clipped, labels, pgroups, pidx, classes, handed>>

\* pregroup.flat().map((x) => x.path)
Matched ==
    UNION {{pgroups[k].items[h] : h \in 1..Len(pgroups[k].items)} :
             k \in 1..Len(pgroups)}

\* FilterRemaining handing every record to the similarity grouping.
FilterRemainingKeepAll ==
    /\ qpc = "filter"
    /\ photos' = clipped
    /\ cfg' = MainGroupConfig
    /\ used' = {} /\ groups' = <<>> /\ group' = <<>> /\ queue' = <<>>
    /\ seedIdx' = 1 /\ pc' = "seed"
    /\ qpc' = "grouping"
    /\ UNCHANGED <<clipped, labels, pgroups, pidx, classes, handed>>

\* clippedRemaining = clipped.filter((v) => !matched.has(v.path)), then the
\* similarity grouping is entered on it.
FilterRemaining ==
    /\ qpc = "filter"
    /\ LET Remaining(v) == v.path \notin Matched
       IN  photos' = SelectSeq(clipped, Remaining)
    /\ cfg' = MainGroupConfig
    /\ used' = {} /\ groups' = <<>> /\ group' = <<>> /\ queue' = <<>>
    /\ seedIdx' = 1 /\ pc' = "seed"
    /\ qpc' = "grouping"
    /\ UNCHANGED <<clipped, labels, pgroups, pidx, classes, handed>>

\* pregroup.filter((x) => x.length > 0)
NonEmptyPregroups ==
    LET NonEmpty(x) == Len(x) > 0
    IN  SelectSeq([k \in 1..Len(pgroups) |-> pgroups[k].items], NonEmpty)

\* The similarity grouping has returned: the non-empty pre-groups are pushed
\* behind its groups and the list goes to scoreImages.
Combine ==
    /\ qpc = "grouping"
    /\ pc = "done"
    /\ handed' = Some(groups \o NonEmptyPregroups)
    /\ qpc' = "handed"
    /\ UNCHANGED <<clipped, labels, pgroups, pidx, classes>>
    /\ UNCHANGED gvars

\* Records of the files of the group step: no signal, and a hash and time
\* two files can share.
PregroupPool == {AbsentAttrs, Attrs(Some(Hash00), Some(0), <<>>)}

(***************************************************************************)
(* groupPhotosTransitive run twice, on a batch and on a permutation of it  *)
(***************************************************************************)
\* The records of the batch: a pair whose embeddings have different
\* lengths, and two capture times within secondsSeparated.
RerunPool ==
    { Attrs(None, None, <<1>>),
      Attrs(Some(HashFF), None, <<1, 0>>),
      Attrs(None, Some(8000), <<>>),
      Attrs(None, Some(16000), <<3, 4>>) }

\* The first run has returned; the second is entered on the same records in
\* the order order[1], order[2], ...
RunPermuted(order) ==
    /\ run = 1
    /\ pc = "done"
    /\ firstPhotos' = photos
    /\ firstGroups' = groups
    /\ photos' = [k \in 1..Len(photos) |-> photos[order[k]]]
    /\ used' = {} /\ groups' = <<>> /\ group' = <<>> /\ queue' = <<>>
    /\ seedIdx' = 1 /\ pc' = "seed"
    /\ run' = 2
    /\ UNCHANGED cfg

\* The orders of n records.
Orders(n) ==
    {f \in [1..n -> 1..n] : \A h, k \in 1..n : h # k => f[h] # f[k]}

(***************************************************************************)
(* One call of areLinked in each order, on a pair of records               *)
(***************************************************************************)
NoRet ==
    [threw |-> FALSE, ab |-> FALSE, ba |-> FALSE,
     semanticAB |-> FALSE, semanticBA |-> FALSE, cosAB |-> NaN, cosBA |-> NaN]

CallAreLinked ==
    /\ lpc = "call"
    /\ lpc' = "returned"
    /\ lret' =
         IF areLinkedThrows(la, lb) \/ areLinkedThrows(lb, la)
         THEN [NoRet EXCEPT !.threw = TRUE]
         ELSE [threw |-> FALSE,
               ab |-> areLinked(la, lb, lcfg),
               ba |-> areLinked(lb, la, lcfg),
               semanticAB |-> semanticSignal(la, lb, lcfg),
               semanticBA |-> semanticSignal(lb, la, lcfg),
               cosAB |-> cosineSimilarity(la.clip, lb.clip),
               cosBA |-> cosineSimilarity(lb.clip, la.clip)]
    /\ UNCHANGED <<la, lb, lcfg>>

(***************************************************************************)
(* Specifications                                                          *)
(***************************************************************************)
GroupIdle ==
    /\ photos = <<>> /\ cfg = DefaultConfig /\ used = {} /\ groups = <<>>
    /\ group = <<>> /\ queue = <<>> /\ seedIdx = 1 /\ pc = "idle"

LinkIdle ==
    /\ la = Image(1, AbsentAttrs) /\ lb = Image(2, AbsentAttrs)
    /\ lcfg = DefaultConfig /\ lret = NoRet /\ lpc = "idle"

ScoreIdle ==
    /\ breakdown = [f \in Fields |-> 0] /\ score = 0 /\ spc = "idle"

WeightsIdle == argvW = WEIGHTS /\ cfgW = WEIGHTS

BatchIdle ==
    /\ igroups = <<>> /\ files = <<>> /\ skipFace = FALSE
    /\ modelsLoaded = FALSE /\ loads = [x \in Nets |-> 0]
    /\ gi = 0 /\ tpc = <<>> /\ settled = <<>> /\ ng = <<>> /\ bpc = "idle"

ReviewIdle ==
    /\ rmode = "multi" /\ scored = <<>> /\ recommendedIndex = 0
    /\ selections = <<>> /\ allKeeps = <<>> /\ rpc = "idle"
    /\ currentGroup = 0 /\ selected = {} /\ posted = None /\ status = 0
    /\ decision = None

RenameIdle ==
    /\ folder = {} /\ selectedFiles = <<>> /\ fileIdx = 1 /\ tagged = <<>>
    /\ npc = "idle"

PregroupIdle ==
    /\ clipped = <<>> /\ labels = {} /\ pgroups = <<>> /\ pidx = 1
    /\ classes = <<>> /\ handed = None /\ qpc = "idle"

RerunIdle == run = 0 /\ firstPhotos = <<>> /\ firstGroups = <<>>

ExtraIdle == RenameIdle /\ PregroupIdle /\ RerunIdle

MainIdle ==
    /\ filesAbs = <<>> /\ skipSet = {} /\ mscored = None /\ chosen = <<>>
    /\ where = <<>> /\ renameList = None /\ ran = {} /\ merror = ""
    /\ exitCode = 0 /\ mpc = "idle"

\* The state at the entry of groupPhotosTransitive: any batch of at most
\* NumPhotos records with pairwise distinct paths, any thresholds.
InitGroup ==
    /\ \E n \in 0..NumPhotos : \E f \in [1..n -> GroupPool] :
           photos = [i \in 1..n |-> Image(i, f[i])]
    /\ cfg \in GroupConfigs
    /\ used = {} /\ groups = <<>> /\ group = <<>> /\ queue = <<>>
    /\ seedIdx = 1 /\ pc = "seed"
    /\ LinkIdle /\ ScoreIdle /\ WeightsIdle /\ BatchIdle /\ ReviewIdle /\ MainIdle /\ ExtraIdle

NextGroup ==
    \/ (SkipSeed /\ UNCHANGED <<lvars, svars, wvars, bvars, rvars, mvars, xvars>>)
    \/ (StartGroup /\ UNCHANGED <<lvars, svars, wvars, bvars, rvars, mvars, xvars>>)
    \/ (PopAndScan /\ UNCHANGED <<lvars, svars, wvars, bvars, rvars, mvars, xvars>>)
    \/ (EmitGroup /\ UNCHANGED <<lvars, svars, wvars, bvars, rvars, mvars, xvars>>)
    \/ (Return /\ UNCHANGED <<lvars, svars, wvars, bvars, rvars, mvars, xvars>>)

Spec == InitGroup /\ [][NextGroup]_vars

InitLink ==
    /\ \E x \in LinkPool, y \in LinkPool : la = Image(1, x) /\ lb = Image(2, y)
    /\ lcfg \in LinkConfigs
    /\ lret = NoRet /\ lpc = "call"
    /\ GroupIdle /\ ScoreIdle /\ WeightsIdle /\ BatchIdle /\ ReviewIdle /\ MainIdle /\ ExtraIdle

NextLink ==
    CallAreLinked /\ UNCHANGED <<gvars, svars, wvars, bvars, rvars, mvars, xvars>>

SpecLink == InitLink /\ [][NextLink]_vars

InitScore ==
    /\ breakdown \in [Fields -> SubScores] \cup {PortraitBreakdown}
    /\ score = 0 /\ spc = "breakdown"
    /\ GroupIdle /\ LinkIdle /\ WeightsIdle /\ BatchIdle /\ ReviewIdle /\ MainIdle /\ ExtraIdle

NextScore ==
    ScoreImage /\ UNCHANGED <<gvars, lvars, wvars, bvars, rvars, mvars, xvars>>

SpecScore == InitScore /\ [][NextScore]_vars

\* main with any weight set on the command line, then one photo scored.
InitWeights ==
    /\ argvW \in WeightSets /\ cfgW = WEIGHTS
    /\ breakdown \in [Fields -> UnitScores]
    /\ score = 0 /\ spc = "config"
    /\ GroupIdle /\ LinkIdle /\ BatchIdle /\ ReviewIdle /\ MainIdle /\ ExtraIdle

NextWeights ==
    \/ (MainSetScoreConfig /\ UNCHANGED <<gvars, lvars, bvars, rvars, mvars, xvars>>)
    \/ (ScoreImage /\ UNCHANGED <<gvars, lvars, wvars, bvars, rvars, mvars, xvars>>)

SpecWeights == InitWeights /\ [][NextWeights]_vars

\* The variables outside the scoring batch and the review.
ovars == <<gvars, lvars, svars, wvars>>

\* main from the call of scoreImages on: any batch of at most MaxBatch photos
\* in non-empty groups, any file behind each path, face recognition on or off,
\* the models not loaded yet.
InitPipeline ==
    /\ \E n \in 0..MaxBatch : \E starts \in [1..n -> BOOLEAN] :
           /\ n > 0 => starts[1]
           /\ igroups = Batch(n, starts)
           /\ files \in [1..n -> FileKinds]
    /\ skipFace \in BOOLEAN
    /\ modelsLoaded = FALSE /\ loads = [x \in Nets |-> 0]
    /\ gi = 0 /\ tpc = <<>> /\ settled = <<>> /\ ng = <<>> /\ bpc = "call"
    /\ ReviewIdle /\ MainIdle /\ ExtraIdle
    /\ GroupIdle /\ LinkIdle /\ ScoreIdle /\ WeightsIdle

NextPipeline ==
    \/ (CallScoreImages /\ UNCHANGED <<ovars, rvars, mvars, xvars>>)
    \/ (\E j \in 1..Len(tpc) : StatResolved(j) /\ UNCHANGED <<ovars, rvars, mvars, xvars>>)
    \/ (\E j \in 1..Len(tpc) : NetLoaded(j) /\ UNCHANGED <<ovars, rvars, mvars, xvars>>)
    \/ (\E j \in 1..Len(tpc) : BufferRead(j) /\ UNCHANGED <<ovars, rvars, mvars, xvars>>)
    \/ (\E j \in 1..Len(tpc) : FaceSignals(j) /\ UNCHANGED <<ovars, rvars, mvars, xvars>>)
    \/ (GroupSettled /\ UNCHANGED <<ovars, rvars, mvars, xvars>>)
    \/ (ScoreImagesReturned /\ UNCHANGED <<ovars, bvars, mvars, xvars>>)
    \/ (ReviewAllGroupsBun /\ UNCHANGED <<ovars, bvars, mvars, xvars>>)
    \/ (Load /\ UNCHANGED <<ovars, bvars, mvars, xvars>>)
    \/ (\E results \in ReviewResults(Len(scored)) :
            Decide(results) /\ UNCHANGED <<ovars, bvars, mvars, xvars>>)
    \/ (ApplyKeeps /\ UNCHANGED <<ovars, bvars, mvars, xvars>>)

SpecPipeline == InitPipeline /\ [][NextPipeline]_vars

\* main after the configuration: at most MaxBatch globbed files, all in the
\* folder, and any set of skipped steps.
InitMain ==
    /\ \E n \in 0..MaxBatch :
           /\ filesAbs = [p \in 1..n |-> p]
           /\ where = [p \in 1..n |-> "folder"]
    /\ skipSet \in SUBSET Steps
    /\ mscored = None /\ chosen = <<>> /\ renameList = None /\ ran = {}
    /\ merror = "" /\ exitCode = 0 /\ mpc = "group"
    /\ BatchIdle /\ ReviewIdle /\ ExtraIdle
    /\ GroupIdle /\ LinkIdle /\ ScoreIdle /\ WeightsIdle

NextMain ==
    \/ (GroupSkipped /\ UNCHANGED <<ovars, bvars, rvars, xvars>>)
    \/ (GroupStep /\ UNCHANGED <<ovars, bvars, rvars, xvars>>)
    \/ (GroupStepFails /\ UNCHANGED <<ovars, bvars, rvars, xvars>>)
    \/ (MoveStep /\ UNCHANGED <<ovars, bvars, rvars, xvars>>)
    \/ (RenameStep /\ UNCHANGED <<ovars, bvars, rvars, xvars>>)
    \/ (CompressStep /\ UNCHANGED <<ovars, bvars, rvars, xvars>>)

SpecMain == InitMain /\ [][NextMain]_vars

\* tagAndRenameFiles called on a list of distinct names, some of them
\* possibly no longer on disk, in a folder that may hold other files.
InitRename ==
    /\ selectedFiles \in FileLists(MaxFiles)
    /\ \E names \in SUBSET NamePool :
           folder = {[name |-> n, orig |-> n] : n \in names}
    /\ fileIdx = 1 /\ tagged = <<>> /\ npc = "loop"
    /\ BatchIdle /\ ReviewIdle /\ MainIdle /\ PregroupIdle /\ RerunIdle
    /\ GroupIdle /\ LinkIdle /\ ScoreIdle /\ WeightsIdle

NextRename ==
    \/ (\E outcome \in TagOutcomes :
            ProcessFile(outcome)
            /\ UNCHANGED <<ovars, bvars, rvars, mvars, qvars, tvars>>)
    \/ (Complete /\ UNCHANGED <<ovars, bvars, rvars, mvars, qvars, tvars>>)

SpecRename == InitRename /\ [][NextRename]_vars

\* main's group step after buildPhotosFromFiles: one record per globbed
\* file, the keyword labels given or not.
InitPregroup ==
    /\ \E n \in 0..NumPhotos : \E f \in [1..n -> PregroupPool] :
           clipped = [i \in 1..n |-> Image(i, f[i])]
    /\ labels \in {{}, {"beach", "dog"}}
    /\ pgroups = <<>> /\ pidx = 1 /\ classes = <<>> /\ handed = None
    /\ qpc = "classify"
    /\ GroupIdle /\ LinkIdle /\ ScoreIdle /\ WeightsIdle
    /\ BatchIdle /\ ReviewIdle /\ MainIdle /\ RenameIdle /\ RerunIdle

PregroupOthers == <<lvars, svars, wvars, bvars, rvars, mvars, nvars, tvars>>

NextPregroup ==
    \/ (PreGroupNothing /\ UNCHANGED <<gvars, PregroupOthers>>)
    \/ (\E outcome \in ClassifyOutcomes :
            Classify(outcome) /\ UNCHANGED <<gvars, PregroupOthers>>)
    \/ (PreGroupReturn /\ UNCHANGED <<gvars, PregroupOthers>>)
    \/ (FilterRemaining /\ UNCHANGED PregroupOthers)
    \/ (SkipSeed /\ UNCHANGED <<qvars, PregroupOthers>>)
    \/ (StartGroup /\ UNCHANGED <<qvars, PregroupOthers>>)
    \/ (PopAndScan /\ UNCHANGED <<qvars, PregroupOthers>>)
    \/ (EmitGroup /\ UNCHANGED <<qvars, PregroupOthers>>)
    \/ (Return /\ UNCHANGED <<qvars, PregroupOthers>>)
    \/ (Combine /\ UNCHANGED PregroupOthers)

SpecPregroup == InitPregroup /\ [][NextPregroup]_vars

\* groupPhotosTransitive entered on a batch, to be run again on a
\* permutation of it.
InitRerun ==
    /\ \E n \in 0..NumPhotos : \E f \in [1..n -> RerunPool] :
           photos = [i \in 1..n |-> Image(i, f[i])]
    /\ cfg = DefaultConfig
    /\ used = {} /\ groups = <<>> /\ group = <<>> /\ queue = <<>>
    /\ seedIdx = 1 /\ pc = "seed"
    /\ run = 1 /\ firstPhotos = <<>> /\ firstGroups = <<>>
    /\ LinkIdle /\ ScoreIdle /\ WeightsIdle
    /\ BatchIdle /\ ReviewIdle /\ MainIdle /\ RenameIdle /\ PregroupIdle

RerunOthers == <<lvars, svars, wvars, bvars, rvars, mvars, nvars, qvars>>

NextRerun ==
    \/ (SkipSeed /\ UNCHANGED <<tvars, RerunOthers>>)
    \/ (StartGroup /\ UNCHANGED <<tvars, RerunOthers>>)
    \/ (PopAndScan /\ UNCHANGED <<tvars, RerunOthers>>)
    \/ (EmitGroup /\ UNCHANGED <<tvars, RerunOthers>>)
    \/ (Return /\ UNCHANGED <<tvars, RerunOthers>>)
    \/ (\E order \in Orders(Len(photos)) :
            RunPermuted(order) /\ UNCHANGED RerunOthers)

SpecRerun == InitRerun /\ [][NextRerun]_vars

\* A review called on scored groups: reviewGroupBun on one group, or
\* reviewAllGroupsBun on a batch of groups.
InitReview ==
    /\ rmode \in {"single", "multi"}
    /\ \E n \in 1..MaxBatch : \E starts \in [1..n -> BOOLEAN] :
       \E f \in [1..n -> ReviewBreakdowns] :
           /\ starts[1]
           /\ rmode = "single" => GroupNumber(starts, n) = 1
           /\ scored = ScoredBatch(n, starts, f)
    /\ recommendedIndex = 0 /\ selections = <<>> /\ allKeeps = <<>>
    /\ currentGroup = 0 /\ selected = {} /\ posted = None /\ status = 0
    /\ decision = None
    /\ rpc = "call"
    /\ BatchIdle /\ MainIdle /\ ExtraIdle
    /\ GroupIdle /\ LinkIdle /\ ScoreIdle /\ WeightsIdle

NextReview ==
    \/ (ReviewGroupBun /\ UNCHANGED <<ovars, bvars, mvars, xvars>>)
    \/ (ReviewAllGroupsBun /\ UNCHANGED <<ovars, bvars, mvars, xvars>>)
    \/ (Load /\ UNCHANGED <<ovars, bvars, mvars, xvars>>)
    \/ (\E i \in 0..(MaxBatch - 1) : Toggle(i) /\ UNCHANGED <<ovars, bvars, mvars, xvars>>)
    \/ (selectNone /\ UNCHANGED <<ovars, bvars, mvars, xvars>>)
    \/ (selectAll /\ UNCHANGED <<ovars, bvars, mvars, xvars>>)
    \/ (selectRecommended /\ UNCHANGED <<ovars, bvars, mvars, xvars>>)
    \/ (PrevGroupClick /\ UNCHANGED <<ovars, bvars, mvars, xvars>>)
    \/ (NextGroupClick /\ UNCHANGED <<ovars, bvars, mvars, xvars>>)
    \/ (Finish /\ UNCHANGED <<ovars, bvars, mvars, xvars>>)
    \/ (Save /\ UNCHANGED <<ovars, bvars, mvars, xvars>>)
    \/ (\E body \in MalformedBodies \cup {posted[k] : k \in 1..Len(posted)} :
            PostDecide(body) /\ UNCHANGED <<ovars, bvars, mvars, xvars>>)

SpecReview == InitReview /\ [][NextReview]_vars

(***************************************************************************)
(* Properties of the grouper (specification Spec)                          *)
(***************************************************************************)
Positions == 1..Len(photos)

\* The places <<g, k>> of the emitted groups.
Slots == UNION {{<<g, k>> : k \in 1..Len(groups[g])} : g \in 1..Len(groups)}
SlotsOf(p) == {s \in Slots : groups[s[1]][s[2]] = p}
GroupIndexOf(p) == CHOOSE g \in 1..Len(groups) : \E s \in SlotsOf(p) : s[1] = g
SameGroup(i, j) ==
    /\ SlotsOf(photos[i].path) # {} /\ SlotsOf(photos[j].path) # {}
    /\ GroupIndexOf(photos[i].path) = GroupIndexOf(photos[j].path)

\* areLinked(photos[i], photos[j]) returns true.
LinkedAt(i, j) ==
    /\ ~areLinkedThrows(photos[i], photos[j])
    /\ areLinked(photos[i], photos[j], cfg)

\* Linked to no other photo of the batch, in either order of the arguments.
Isolated(i) ==
    \A j \in Positions \ {i} : ~LinkedAt(i, j) /\ ~LinkedAt(j, i)

RECURSIVE ReachFrom(_)
\* The positions reached from the set S by chains x1, x2, ... with
\* areLinked(x_k, x_k+1) for each consecutive pair.
ReachFrom(S) ==
    LET next == S \cup {j \in Positions : \E i \in S : LinkedAt(i, j)}
    IN  IF next = S THEN S ELSE ReachFrom(next)

Chain(i, j) == j \in ReachFrom({i}) \/ i \in ReachFrom({j})

AllAbsent(x) == x.hash = None /\ x.time = None /\ x.clip = <<>>

\* C1: when groupPhotosTransitive returns, every input path occurs in exactly
\* one place of the emitted groups, every member of a group is an input path,
\* and a photo linked to no other photo is a group of size 1.
PartitionOfInput ==
    pc = "done" =>
        /\ \A i \in Positions : Cardinality(SlotsOf(photos[i].path)) = 1
        /\ \A s \in Slots :
               \E i \in Positions : photos[i].path = groups[s[1]][s[2]]
        /\ \A i \in Positions :
               Isolated(i) => \E g \in 1..Len(groups) : groups[g] = <<photos[i].path>>

\* C1 witness: a returned batch of three photos split into a group of two and
\* an unlinked photo emitted alone.
PartitionWitness ==
    /\ pc = "done"
    /\ Len(photos) = 3
    /\ Len(groups) = 2
    /\ \E i \in Positions : Isolated(i) /\ groups[2] = <<photos[i].path>>
    /\ Len(groups[1]) = 2

\* C2: when groupPhotosTransitive returns, two photos are in the same group
\* if and only if a chain of areLinked pairs leads from one to the other.
GroupsAreTransitiveClosure ==
    pc = "done" =>
        \A i, j \in Positions : SameGroup(i, j) <=> Chain(i, j)

\* C4: for phashThreshold <= 1.0, two photos with present, identical hash
\* strings are in the same group, whatever their times and embeddings.
EqualHashSameGroup ==
    (pc = "done" /\ cfg.phashThreshold <= 100) =>
        \A i, j \in Positions :
            (IsSome(photos[i].hash) /\ photos[i].hash = photos[j].hash)
                => SameGroup(i, j)

\* C4 witness: at threshold 1.0, two photos with the same hash, capture times
\* three days apart and different embeddings were grouped together.
EqualHashWitness ==
    /\ pc = "done"
    /\ cfg.phashThreshold = 100
    /\ \E i, j \in Positions :
           /\ i # j
           /\ IsSome(photos[i].hash) /\ photos[i].hash = photos[j].hash
           /\ photos[i].time = Some(0) /\ photos[j].time = Some(ThreeDays)
           /\ photos[i].clip # photos[j].clip
           /\ SameGroup(i, j)

\* C9: groupPhotosTransitive never throws, and when it returns a photo with
\* hash, time and embedding all absent is linked to no other photo and is
\* emitted as a group of its own.
MissingSignalsDegrade ==
    /\ pc # "threw"
    /\ pc = "done" =>
           \A i \in Positions :
               AllAbsent(photos[i]) =>
                   /\ Isolated(i)
                   /\ \E g \in 1..Len(groups) : groups[g] = <<photos[i].path>>

\* C9 witness: a returned batch holding a photo with all three signals absent,
\* emitted alone, next to a photo with a null hash and one with a null time
\* that were grouped with another photo.
MissingSignalsWitness ==
    /\ pc = "done"
    /\ \E i \in Positions :
           /\ AllAbsent(photos[i])
           /\ \E g \in 1..Len(groups) : groups[g] = <<photos[i].path>>
    /\ \E j, k \in Positions :
           /\ j # k /\ SameGroup(j, k)
           /\ photos[j].hash = None /\ photos[k].time = None

\* The input position of the photo with path p.
PositionOf(p) == CHOOSE i \in Positions : photos[i].path = p

\* C20: when groupPhotosTransitive returns, the groups are in increasing
\* input position of their first member, the first member of a group is its
\* earliest photo in input order, and for every later member areLinked is
\* true from some member placed before it in the group.
DiscoveryOrder ==
    pc = "done" =>
        /\ \A g, h \in 1..Len(groups) :
               g < h => PositionOf(groups[g][1]) < PositionOf(groups[h][1])
        /\ \A g \in 1..Len(groups) : \A k \in 2..Len(groups[g]) :
               /\ PositionOf(groups[g][1]) < PositionOf(groups[g][k])
               /\ \E m \in 1..(k - 1) :
                      LinkedAt(PositionOf(groups[g][m]), PositionOf(groups[g][k]))

\* C20 witness: a returned batch of three photos in one group that is not in
\* input order: the first photo seeded it, the third joined next, and the
\* second, not linked from the first, was found from the third.
DiscoveryOrderWitness ==
    /\ pc = "done"
    /\ Len(photos) = 3
    /\ groups = <<<<photos[1].path, photos[3].path, photos[2].path>>>>
    /\ ~LinkedAt(1, 2)
    /\ LinkedAt(3, 2)

\* The paths in the sequence q, and the paths in the groups emitted so far.
PathsIn(q) == {q[k] : k \in 1..Len(q)}
EmittedPaths == UNION {PathsIn(groups[g]) : g \in 1..Len(groups)}

\* The component under construction (after its emission it is in groups).
Building == IF pc = "fill" THEN group ELSE <<>>

\* A natural number that every step of the flood fill lowers.
FillVariant ==
    (Len(photos) + 1 - seedIdx) + 3 * (Len(photos) - Cardinality(used))
    + Len(queue) + (IF pc = "fill" THEN 1 ELSE 0)
    + (IF pc \in {"seed", "fill"} THEN 1 ELSE 0)

\* The queue, the component under construction and the emitted groups hold
\* only used paths, each path at most once over all of them.
FrontierDisjoint ==
    /\ pc \in {"seed", "fill", "done"}
    /\ seedIdx \in 1..(Len(photos) + 1)
    /\ PathsIn(queue) \cup PathsIn(Building) \cup EmittedPaths \subseteq used
    /\ Cardinality(PathsIn(queue) \cup PathsIn(Building) \cup EmittedPaths)
           = Len(queue) + Len(Building) + Cardinality(Slots)
    /\ pc = "fill" => used = PathsIn(queue) \cup PathsIn(group) \cup EmittedPaths

\* C28: every step of the flood fill lowers a non-negative measure, so the
\* fill ends; a path entering the queue was not used before and is used from
\* then on, no path leaves used, exactly the popped path moves from the queue
\* to the group, and the queue, the group and the emitted groups stay
\* pairwise disjoint, without repetition, and inside used.
FloodFillTerminates ==
    [][ /\ FillVariant' < FillVariant /\ FillVariant' >= 0
        /\ FrontierDisjoint /\ FrontierDisjoint'
        /\ used \subseteq used'
        /\ \A p \in PathsIn(queue') \ PathsIn(queue) : p \notin used /\ p \in used'
        /\ \A p \in PathsIn(queue) \ PathsIn(queue') :
               pc' = "fill" /\ group' = Append(group, p)
        /\ pc' = "done" =>
               \A i \in Positions : Cardinality(SlotsOf(photos[i].path)') = 1
      ]_gvars

\* C28 witness: in the middle of a fill, the seed has been popped and the two
\* other photos were enqueued by its scan.
FrontierWitness ==
    /\ pc = "fill"
    /\ Len(photos) = 3
    /\ group = <<photos[1].path>>
    /\ Len(queue) = 2
    /\ used = {photos[i].path : i \in Positions}

(***************************************************************************)
(* Properties of areLinked and cosineSimilarity (specification SpecLink)   *)
(***************************************************************************)
TimeGap == Abs(la.time[1] - lb.time[1])
CosAboveThreshold ==
    GreaterThanHundredths(lret.cosAB, lcfg.cosineSimilarityThreshold)

\* C3: areLinked(a, b) equals areLinked(b, a) for every pair of records.
LinkSymmetric == lpc = "returned" => lret.ab = lret.ba

SemanticBoundedByTime ==
    ( /\ lpc = "returned"
      /\ CosAboveThreshold
      /\ IsSome(la.time) /\ IsSome(lb.time) )
    => (lret.semanticAB <=> (TimeGap <= lcfg.cosineMaxMinutes * 60000))

\* C7: with cosine similarity above the threshold, the semantic signal fires
\* exactly when both times are absent or both are present and within the
\* window; a present time, 0 included, is never treated as absent.
SemanticWindowDefault ==
    (lpc = "returned" /\ CosAboveThreshold)
    => ( lret.semanticAB <=>
            \/ (la.time = None /\ lb.time = None)
            \/ ( /\ IsSome(la.time) /\ IsSome(lb.time)
                 /\ TimeGap <= lcfg.cosineMaxMinutes * 60000 ) )

\* C8: cosineSimilarity returns 0 when either vector is empty or has norm 0.
DegenerateCosineIsZero ==
    ( /\ lpc = "returned"
      /\ \/ la.clip = <<>> \/ lb.clip = <<>>
         \/ Norm(la.clip) = 0 \/ Norm(lb.clip) = 0 )
    => (lret.cosAB.kind = "num" /\ lret.cosAB.num = 0)

(***************************************************************************)
(* Properties of the composite score (specification SpecScore)             *)
(***************************************************************************)
RECURSIVE WeightedTotal(_)
\* The sum over the fields fs of weight * sub-score, for the breakdown scored.
WeightedTotal(fs) ==
    IF fs = {} THEN 0
    ELSE LET f == CHOOSE x \in fs : TRUE
         IN  WEIGHTS[f] * breakdown[f] + WeightedTotal(fs \ {f})

ScoreMonotone ==
    spc = "scored" =>
        \A f \in Fields : \A v \in SubScores :
            v > breakdown[f] =>
                weightedSum([breakdown EXCEPT ![f] = v]) >= score

\* C11 witness: a scored breakdown strictly inside the clamp for which raising
\* the contrast sub-score raises the composite score.
ScoreMonotoneWitness ==
    /\ spc = "scored"
    /\ 0 < score /\ score < One
    /\ breakdown.contrast = 0
    /\ weightedSum([breakdown EXCEPT !.contrast = 50]) > score

\* C12: with the default weights the breakdown {0.9, 0.8, 0.95, 1, 1, 1} is
\* scored 0.97 and the all-zero breakdown is scored 0.
DefaultWeightExamples ==
    spc = "scored" =>
        /\ breakdown = PortraitBreakdown => score = 97 * 100
        /\ breakdown = [f \in Fields |-> 0] => score = 0

\* C12 witness: the breakdown {0.9, 0.8, 0.95, 1, 1, 1} has been scored.
PortraitScoredWitness ==
    /\ spc = "scored"
    /\ breakdown = PortraitBreakdown
    /\ score = 97 * 100

(***************************************************************************)
(* Properties of the scoring weights (specification SpecWeights)           *)
(***************************************************************************)
RECURSIVE SuppliedTotal(_)
\* The sum over the fields fs of supplied weight * sub-score.
SuppliedTotal(fs) ==
    IF fs = {} THEN 0
    ELSE LET f == CHOOSE x \in fs : TRUE
         IN  argvW[f] * breakdown[f] + SuppliedTotal(fs \ {f})

\* C13: the weights main configures are the supplied ones, a supplied 0
\* included, and a photo scored afterwards gets the clamped sum of supplied
\* weight * sub-score.
SuppliedWeightsUsed ==
    /\ spc # "config" => cfgW = argvW
    /\ spc = "scored" => score = Min(One, Max(0, SuppliedTotal(Fields)))

(***************************************************************************)
(* Properties of the review's recommendation (specification SpecReview)    *)
(***************************************************************************)
ScoreAt(g, i) == g[i + 1].score.score

\* The smallest 0-based index of g holding the largest composite score.
FirstMaxIndex(g) ==
    CHOOSE i \in 0..(Len(g) - 1) :
        /\ \A k \in 0..(Len(g) - 1) : ScoreAt(g, k) <= ScoreAt(g, i)
        /\ \A k \in 0..(i - 1) : ScoreAt(g, k) < ScoreAt(g, i)

\* C14: once the page has loaded, the index the server marked recommended
\* (reviewGroupBun) and the one index the page pre-selected in each group are
\* the first index holding the group's maximum composite score.
RecommendedIsFirstMax ==
    rpc = "loaded" =>
        /\ rmode = "single" => recommendedIndex = FirstMaxIndex(scored[1])
        /\ \A g \in 1..Len(scored) :
               selections[g] = {FirstMaxIndex(scored[g])}

(***************************************************************************)
(* Properties of scoreImages and of main's use of the review result        *)
(* (specification SpecPipeline)                                            *)
(***************************************************************************)
\* The indices of the review result for group g (none if the result has no
\* list for it).
KeptIndices(g) ==
    IF g <= Len(allKeeps)
    THEN {allKeeps[g][m] : m \in 1..Len(allKeeps[g])}
    ELSE {}

\* C15: every entry scoreImages creates has keep = false, keep is still
\* false everywhere while the review is open (also once the page has
\* pre-selected its recommendation), and after main applied the review
\* result the entries are those scoreImages returned with keep = true exactly
\* at the indices the result lists for their group.
KeepSetOnlyByReview ==
    /\ \A k \in 1..Len(settled) : ~settled[k].value.keep
    /\ \A g \in 1..Len(ng) : \A k \in 1..Len(ng[g]) : ~ng[g][k].keep
    /\ rpc \in {"call", "serving", "loaded", "decided", "skipped"} => scored = ng
    /\ rpc = "applied" =>
           /\ Len(scored) = Len(ng)
           /\ \A g \in 1..Len(ng) :
                  /\ Len(scored[g]) = Len(ng[g])
                  /\ \A k \in 1..Len(ng[g]) :
                         scored[g][k] =
                             [ng[g][k] EXCEPT !.keep = (k - 1 \in KeptIndices(g))]

\* C15 witness: a review result was applied that keeps both members of one
\* group and, for another group, lists only indices outside the group: the
\* member the page had pre-selected there is not kept.
KeepWitness ==
    /\ rpc = "applied"
    /\ \E g \in 1..Len(scored) :
           /\ Len(scored[g]) = 2
           /\ \A k \in 1..2 : scored[g][k].keep
    /\ \E g \in 1..Len(scored) :
           /\ g <= Len(allKeeps)
           /\ allKeeps[g] = <<-1, MaxBatch>>
           /\ selections[g] = {0}
           /\ \A k \in 1..Len(scored[g]) : ~scored[g][k].keep

\* C16: scoreImages never rejects, and when it returns every input photo is
\* in the output at its place with a composite score in [0, 1].
ScoringFailureContained ==
    /\ bpc # "rejected"
    /\ bpc = "returned" =>
           /\ Len(ng) = Len(igroups)
           /\ \A i \in 1..Len(igroups) :
                  /\ Len(ng[i]) = Len(igroups[i])
                  /\ \A j \in 1..Len(igroups[i]) :
                         /\ ng[i][j].path = igroups[i][j].path
                         /\ 0 <= ng[i][j].score.score
                         /\ ng[i][j].score.score <= One

\* C17: a scoreImage call whose face inference throws is not rejected: it
\* resolves with facePresence, eyesOpen and smiling all 0.
FaceErrorIsNoFace ==
    \A j \in 1..Len(tpc) :
        ( /\ computeFaceSignalsThrows(files[igroups[gi][j].path], skipFace)
          /\ tpc[j] \in {"done", "rejected"} )
        => /\ tpc[j] = "done"
           /\ \E k \in 1..Len(settled) :
                  /\ settled[k].index = j
                  /\ settled[k].value.score.breakdown.facePresence = 0
                  /\ settled[k].value.score.breakdown.eyesOpen = 0
                  /\ settled[k].value.score.breakdown.smiling = 0

\* C18: each of the three nets is loaded from disk at most once.
ModelsLoadedOnce == \A x \in Nets : loads[x] <= 1

\* C19: when scoreImages returns there is one ScoreGroup per input group, in
\* order, and entry j of group i has the path of member j of input group i,
\* the ImageScore of that file and keep = false.
OutputAlignedWithInput ==
    bpc = "returned" =>
        /\ Len(ng) = Len(igroups)
        /\ \A i \in 1..Len(igroups) :
               /\ Len(ng[i]) = Len(igroups[i])
               /\ \A j \in 1..Len(igroups[i]) :
                      LET p == igroups[i][j].path
                      IN  /\ ng[i][j].path = p
                          /\ ng[i][j].score.path = p
                          /\ ng[i][j].score.score =
                                 weightedSum(BreakdownOf(files[p], skipFace))
                          /\ ~ng[i][j].keep

\* C19 witness: scoreImages returned two groups; in the second, of two photos
\* with different scores, the second photo's scoring resolved first.
OutputAlignedWitness ==
    /\ bpc = "returned"
    /\ Len(ng) = 2
    /\ Len(ng[2]) = 2
    /\ settled[1].index = 2 /\ settled[2].index = 1
    /\ ng[2][1].score.score # ng[2][2].score.score
    /\ ng[2][1].path = igroups[2][1].path

\* C22: with face recognition skipped, or no face detected, a scored photo
\* has facePresence, eyesOpen and smiling 0; with face recognition skipped no
\* call stands inside ensureFaceApi, no net is loaded and the models are never
\* flagged loaded.
NoFaceMeansZeros ==
    /\ \A k \in 1..Len(settled) :
           LET e == settled[k].value
           IN  (skipFace \/ files[e.path].face = "none") =>
                   /\ e.score.breakdown.facePresence = 0
                   /\ e.score.breakdown.eyesOpen = 0
                   /\ e.score.breakdown.smiling = 0
    /\ skipFace =>
           /\ ~modelsLoaded
           /\ \A x \in Nets : loads[x] = 0
           /\ \A j \in 1..Len(tpc) : tpc[j] \notin Nets \cup {"stat"}

\* C22 witness: with face recognition skipped scoreImages returned a group
\* holding a portrait, scored with the three face signals 0, next to a photo
\* without a face.
NoFaceWitness ==
    /\ bpc = "returned"
    /\ skipFace
    /\ Len(ng) = 1 /\ Len(ng[1]) = 2
    /\ files[ng[1][1].path].face = "found"
    /\ files[ng[1][2].path].face = "none"
    /\ ng[1][1].score.breakdown.smiling = 0
    /\ ng[1][1].score.score = ng[1][2].score.score

(***************************************************************************)
(* Properties of main's steps (specification SpecMain)                     *)
(***************************************************************************)
\* The ScoreGroups main holds (none while scored is undefined).
ScoredGroups == IF mscored = None THEN <<>> ELSE mscored[1]

\* C21: after moveDups ran, the first highest-scoring member of every group
\* is still in the folder.
HighestScoringStays ==
    "move" \in ran =>
        \A g \in 1..Len(ScoredGroups) :
            where[ScoredGroups[g][FirstMaxIndex(ScoredGroups[g]) + 1].path]
                = "folder"

\* C24: with 'group' skipped and 'move' not, main ends with the error
\* "Cannot run 'move' without scores" and exit code 1, no step has run, no
\* file was moved and nothing was handed to rename; with both skipped, main
\* ends without error, exit code unset, and rename and compress ran unless
\* skipped themselves.
MoveNeedsScores ==
    /\ ( /\ ~shouldRun("group") /\ shouldRun("move")
         /\ mpc \in {"rename", "compress", "exited", "failed"} )
       => /\ mpc = "failed"
          /\ merror = "Cannot run 'move' without scores"
          /\ exitCode = 1
          /\ ran = {}
          /\ renameList = None
          /\ \A p \in DOMAIN where : where[p] = "folder"
    /\ (~shouldRun("group") /\ ~shouldRun("move") /\ mpc = "exited")
       => /\ merror = "" /\ exitCode = 0
          /\ ran = Steps \ skipSet
          /\ shouldRun("rename") => renameList = Some(filesAbs)

\* C24 witness: main ended with the move error on a folder of two files, only
\* 'group' being skipped.
MoveNeedsScoresWitness ==
    /\ mpc = "failed"
    /\ skipSet = {"group"}
    /\ Len(filesAbs) = 2
    /\ exitCode = 1
    /\ merror = "Cannot run 'move' without scores"

\* C25: the rename step is handed the paths of the kept entries when there
\* are any, else the globbed files; and when some entry was kept, no path it
\* is handed has been moved to the duplicates folder.
RenameGetsKeptFiles ==
    "rename" \in ran =>
        /\ renameList = Some(ListForRename(ScoredGroups))
        /\ KeptFiles(ScoredGroups) # <<>> =>
               \A k \in 1..Len(renameList[1]) : where[renameList[1][k]] = "folder"

(***************************************************************************)
(* Properties of the review page and of POST /api/decide (SpecReview)      *)
(***************************************************************************)
\* The list l is strictly ascending.
Ascending(l) == \A h \in 1..(Len(l) - 1) : l[h] < l[h + 1]

\* The set of the members of the list l.
Members(l) == {l[h] : h \in 1..Len(l)}

\* The body holds one ascending list of valid member indices per group, in
\* group order, group g's list being the selection sel[g].
PostsSelections(body, sel) ==
    /\ body.valid
    /\ body.results.type = "array"
    /\ Len(body.results.list) = Len(scored)
    /\ \A g \in 1..Len(scored) :
           /\ Ascending(body.results.list[g])
           /\ Members(body.results.list[g]) \subseteq 0..(Len(scored[g]) - 1)
           /\ Members(body.results.list[g]) = sel[g]

\* C26: in the multi-group page, every step after load leaves currentGroup
\* within [0, groups.length - 1]; a click changes no selection but the
\* displayed group's; a click that changes the displayed group stores the
\* selection of the group left and shows the stored selection of the group
\* reached (so a group left and reached again shows what it was left with);
\* and Finish posts one ascending list of valid member indices per group, in
\* group order, holding each group's selection.
ReviewPageNavigation ==
    [][ rmode = "multi" =>
          /\ rpc' \in {"loaded", "posting"} =>
                 currentGroup' \in 0..(Len(scored) - 1)
          /\ rpc = "loaded" =>
                 /\ \A g \in 1..Len(scored) :
                        g # currentGroup + 1 => selections'[g] = selections[g]
                 /\ currentGroup' # currentGroup =>
                        /\ selections'[currentGroup + 1] = selected
                        /\ selected' = selections[currentGroup' + 1]
                 /\ posted' # posted =>
                        PostsSelections(posted'[1], Persisted)
                 /\ selected' \subseteq 0..(Len(scored[currentGroup' + 1]) - 1)
      ]_rvars

\* C26 witness: Finish was clicked on the last of several groups after the
\* first group was left with two members selected.
ReviewPageWitness ==
    /\ rmode = "multi"
    /\ rpc = "posting"
    /\ Len(scored) >= 2
    /\ currentGroup = Len(scored) - 1
    /\ posted # None
    /\ posted[1].results.list[1] = <<0, 1>>
    /\ selections[1] = {0, 1}

\* C27: the review promise is resolved only with an array, and a decide
\* request is answered 200 only when it resolved the promise.
DecisionWellFormed ==
    /\ decision # None => decision[1].type = "array"
    /\ status = 200 => decision # None

(***************************************************************************)
(* Properties of the rename step (specification SpecRename)                *)
(***************************************************************************)
\* The files a folder holds, by the names they had at the start.
Origs(disk) == {f.orig : f \in disk}

\* C30: every turn of tagAndRenameFiles' loop keeps every file (none is
\* replaced or lost), so the number of files is unchanged and no two files
\* have the same path; a name it gives to a file was free before the turn;
\* and a file whose base name starts with the slug is left untouched.
RenameNeverOverwrites ==
    [][ /\ Origs(folder') = Origs(folder)
        /\ Cardinality(folder') = Cardinality(folder)
        /\ \A f, h \in folder' : f.name = h.name => f = h
        /\ \A f \in folder' \ folder : ~Exists(folder, f.name)
        /\ ( /\ Len(tagged') > Len(tagged)
             /\ tagged'[Len(tagged')] \in Slugs
             /\ StartsWith(selectedFiles[fileIdx], tagged'[Len(tagged')]) )
           => folder' = folder
      ]_nvars

\* C30 witness: the list is done, img.jpg and img.JPG were both given the
\* slug "cat" while cat-1.jpg was on disk: they are now cat.jpg and
\* cat-2.jpg, and cat-1.jpg is still there.
RenameWitness ==
    /\ npc = "complete"
    /\ Len(tagged) >= 2
    /\ \A k \in 1..Len(tagged) : tagged[k] = "cat"
    /\ \E f, h \in folder :
           /\ f.orig = FileName(<<"img">>, "jpg")
           /\ h.orig = FileName(<<"img">>, "JPG")
           /\ {f.name, h.name} =
                  {FileName(<<"cat">>, "jpg"), FileName(<<"cat", 2>>, "jpg")}
    /\ \E f \in folder :
           f.orig = FileName(<<"cat", 1>>, "jpg") /\ f.name = f.orig

(***************************************************************************)
(* Properties of main's group step (specification SpecPregroup)            *)
(***************************************************************************)
\* The places <<g, k>> of a list of groups that hold the path p.
PlacesOf(gs, p) ==
    {pl \in UNION {{<<g, k>> : k \in 1..Len(gs[g])} : g \in 1..Len(gs)} :
        gs[pl[1]][pl[2]] = p}

\* The classification of image i did not pass the threshold.
NotPregrouped(i) ==
    classes[i].kind # "best" \/ classes[i].score <= PregroupThreshold

PathSets(gs) == {{gs[g][k] : k \in 1..Len(gs[g])} : g \in 1..Len(gs)}

\* C29: when the second run, on a permutation of the first run's batch, has
\* returned, its groups are those of the first run as sets of paths.
OrderIndependent ==
    (run = 2 /\ pc = "done") => PathSets(groups) = PathSets(firstGroups)

====
